---------------------------- MODULE Spec2Model ----------------------------
(***************************************************************************)
(* A model of the QuickBooks export analyzer (pl-variance-analyzer).       *)
(*                                                                         *)
(* GLSpec: the ledger parsers (gl_analyzer.parse_gl_with_mapping and       *)
(* expense_analyzer.parse_qbo_gl) reading a General Ledger row by row,     *)
(* followed by validation.validate_gl_parsing on the same file.            *)
(*                                                                         *)
(* PLSpec: pl_parser.parse_pl_csv on a Profit & Loss by Month export: the  *)
(* row loop, the assignment of QuickBooks' own totals,                     *)
(* calculate_section_totals and validate_pl_totals.                        *)
(*                                                                         *)
(* Money is counted in cents (integers).  An account name is the sequence  *)
(* of its ':'-separated segments, so "Marketing:Print" is                  *)
(* <<"Marketing", "Print">>; None and the empty string are <<>>.            *)
(***************************************************************************)
EXTENDS Integers, Sequences, FiniteSets, TLC

VARIABLES
    pc,                    \* "rows" | "parsed" | "validated"
    parser,                \* which ledger parser reads the file
    account_map,           \* Chart of Accounts: sequence of [name, type] (dict order)
    nrows,                 \* rows of the file read so far
    accounts,              \* dict name -> AccountSummary, in insertion order
    all_transactions,      \* flat list of Transaction
    current_account,       \* current account context (<<>> is None)
    current_account_type,
    parent_account_stack,  \* gl_analyzer's parent-tracking stack (raw names)
    gl_totals,             \* the file's "Total for X" lines as extract_gl_totals reads them
    result,                \* ValidationResult
    map_supplied,          \* whether validate_gl_parsing was given an account_map
    compared,              \* per 'Total for' line compared: the loop's locals (history)
    malformed_rows,        \* malformed transaction rows read so far (history)
    pl_pc,                 \* "start" | "parsed" | "assigned" | "calculated" | "returned"
    pl_file,               \* the P&L-by-month CSV: header labels and data rows
    pl_qbo,                \* parse_pl_csv's qbo_* temporaries
    statement,             \* the PLStatement under construction
    pl_warnings,           \* validate_pl_totals' errors
    am_pc,                 \* "row" | "extracted": amount extraction for one row
    am_header,             \* the GL header row: lower-cased label per column
    am_row,                \* one transaction row: a cell per column
    am_amount,             \* the amount extracted from the row
    am_strategy,           \* which extraction strategy produced it (history)
    dt_pc,                 \* "start" | "detecting" | "parsing" | "returned"
    date_format,           \* the option: "auto" | "mdy" | "dmy"
    dt_header_row,         \* index of the GL header row in the sheet
    dt_col1,               \* column 1 of the sheet, one cell per row
    dt_i,                  \* row index of the loop in progress
    dayfirst,              \* the flag handed to the date parser
    detection_ran,         \* whether detect_date_format was called (history)
    dt_dates,              \* per transaction row: the cell and the date made of it
    ex_pc,                 \* "start" | "analyzed"
    ex_path,               \* which code builds the ExpenseCategory list
    ex_accounts,           \* expense accounts in dict order, with monthly amounts
    ex_categories,         \* the ExpenseCategory list
    open_blocks,           \* header names whose 'Total for' row has not been read (history)
    bs_pc,                 \* "start" | "built"
    bs_builder,            \* which module's build_financial_statements runs
    bs_accounts,           \* the accounts dict handed to it, in insertion order
    pnl,                   \* the P&L: bucket -> dict of account name -> total
    balance_sheet,         \* the Balance Sheet: bucket -> dict of account name -> total
    cur_pc,                \* "cell" | "parsed"
    cur_value,             \* the cell handed to parse_currency
    cur_result,            \* what parse_currency returned
    au_db,                 \* the row of the account in the users table
    au_user,               \* session -> st.session_state.user
    au_pc,                 \* session -> position of the script run
    au_current,            \* session -> the count increment_usage has read
    au_success,            \* session -> the query parameter success=true is set
    au_completed           \* analyses completed for the account

glvars == <<pc, parser, account_map, nrows, accounts, all_transactions,
            current_account, current_account_type, parent_account_stack,
            gl_totals, result, map_supplied, compared, malformed_rows>>

plvars == <<pl_pc, pl_file, pl_qbo, statement, pl_warnings>>

amvars == <<am_pc, am_header, am_row, am_amount, am_strategy>>

\* the variables of the other entry points, idle while a parser runs
dtvars == <<dt_pc, date_format, dt_header_row, dt_col1, dt_i, dayfirst,
            detection_ran, dt_dates>>

exvars == <<ex_pc, ex_path, ex_accounts, ex_categories>>

hdvars == <<open_blocks>>

bsvars == <<bs_pc, bs_builder, bs_accounts, pnl, balance_sheet>>

curvars == <<cur_pc, cur_value, cur_result>>

auvars == <<au_db, au_user, au_pc, au_current, au_success, au_completed>>

restvars == <<amvars, dtvars, exvars, hdvars, bsvars, curvars, auvars>>

vars == <<glvars, plvars, restvars>>

\* Amount extraction is not running.
AmountIdle ==
    /\ am_pc = "idle"
    /\ am_header = <<>>
    /\ am_row = <<>>
    /\ am_amount = 0
    /\ am_strategy = "none"

\* Date handling is not running.
DateIdle ==
    /\ dt_pc = "idle"
    /\ date_format = "auto"
    /\ dt_header_row = 0
    /\ dt_col1 = <<>>
    /\ dt_i = 0
    /\ dayfirst = FALSE
    /\ detection_ran = FALSE
    /\ dt_dates = <<>>

\* Expense analysis is not running.
ExpenseIdle ==
    /\ ex_pc = "idle"
    /\ ex_path = "none"
    /\ ex_accounts = <<>>
    /\ ex_categories = <<>>

\* No header walk is running.
HeaderIdle ==
    /\ open_blocks = <<>>

\* No statement is being built.
BuildIdle ==
    /\ bs_pc = "idle"
    /\ bs_builder = "none"
    /\ bs_accounts = <<>>
    /\ pnl = <<>>
    /\ balance_sheet = <<>>

\* No cell is being converted.
CurrencyIdle ==
    /\ cur_pc = "idle"
    /\ cur_value = <<>>
    /\ cur_result = <<>>

\* No session is open.
AuthIdle ==
    /\ au_db = <<>>
    /\ au_user = <<>>
    /\ au_pc = <<>>
    /\ au_current = <<>>
    /\ au_success = <<>>
    /\ au_completed = 0

RestIdle == AmountIdle /\ DateIdle /\ ExpenseIdle /\ HeaderIdle /\ BuildIdle /\ CurrencyIdle /\ AuthIdle

---------------------------------------------------------------------------
(* Bounds and input alphabets *)

MaxRows == 4

\* Header names as they appear in column 0 of the General Ledger.
RawNames == { <<"Marketing">>, <<"Print">>, <<"print">>, <<"Marketing", "Print">> }

\* Names X of the file's "Total for X" rows.
TotalNames == { <<"Marketing">>, <<"Print">> }

\* Transaction amounts and stated totals, in cents.
Amounts == { 100, 115000 }
StatedTotals == { 100, 101, 120000 }

UNKNOWN == "Unknown"

\* Chart of Accounts mapping, in the order of the mapping file.
COA == << [name |-> <<"Marketing">>,               type |-> "Expense"],
          [name |-> <<"Marketing", "Google Ads">>, type |-> "Expense"],
          [name |-> <<"Marketing", "Print">>,      type |-> "Expense"],
          [name |-> <<"Utilities">>,               type |-> "Expense"],
          [name |-> <<"1000 Utilities">>,          type |-> "Expense"] >>

---------------------------------------------------------------------------
(* Strings *)

\* str.lower() on one segment of the alphabet.
Lower(seg) ==
    CASE seg = "Marketing"      -> "marketing"
      [] seg = "Print"          -> "print"
      [] seg = "Google Ads"     -> "google ads"
      [] seg = "Utilities"      -> "utilities"
      [] seg = "1000 Utilities" -> "1000 utilities"
      [] seg = "Flyers"         -> "flyers"
      [] seg = "Operating Expenses" -> "operating expenses"
      [] OTHER                  -> seg

LowerName(n) == [i \in 1..Len(n) |-> Lower(n[i])]

\* re.sub(r'^\d+[\s\-]+', '', name).strip(): drops a leading account number.
StripNumber(n) ==
    IF n # <<>> /\ n[1] = "1000 Utilities" THEN <<"Utilities">> \o Tail(n) ELSE n

\* any(char.isdigit() for char in name.split()[0])
FirstWordHasDigit(n) == n # <<>> /\ n[1] = "1000 Utilities"

\* long.endswith(":" + short)
EndsWithColon(long, short) ==
    /\ Len(long) > Len(short)
    /\ SubSeq(long, Len(long) - Len(short) + 1, Len(long)) = short

\* long.startswith(short + ":")
StartsWithColon(long, short) ==
    /\ Len(long) > Len(short)
    /\ SubSeq(long, 1, Len(short)) = short

\* long.startswith(short), for an alphabet in which no segment is a proper
\* string prefix of another.
StartsWith(long, short) ==
    /\ Len(long) >= Len(short)
    /\ SubSeq(long, 1, Len(short)) = short

Min(S) == CHOOSE x \in S : \A y \in S : x <= y

Abs(x) == IF x < 0 THEN -x ELSE x

RECURSIVE SumAmounts(_)
\* sum(txn.amount for txn in transactions)
SumAmounts(txns) ==
    IF txns = <<>> THEN 0 ELSE Head(txns).amount + SumAmounts(Tail(txns))

RECURSIVE SumTotals(_)
\* sum(summary.total for summary in ...)
SumTotals(accts) ==
    IF accts = <<>> THEN 0 ELSE Head(accts).total + SumTotals(Tail(accts))

---------------------------------------------------------------------------
(* Dictionaries kept as insertion-ordered sequences *)

\* index of key `name` in a sequence of records with a name field, 0 if absent
IndexOf(seq, name) ==
    LET S == {i \in 1..Len(seq) : seq[i].name = name}
    IN  IF S = {} THEN 0 ELSE Min(S)

\* account_map.get(name, AccountType.UNKNOWN)
MapGet(amap, name) ==
    IF IndexOf(amap, name) = 0 THEN UNKNOWN ELSE amap[IndexOf(amap, name)].type

\* the type of the first mapping entry whose index is in S (the loop's break)
FirstType(amap, S) == IF S = {} THEN UNKNOWN ELSE amap[Min(S)].type

---------------------------------------------------------------------------
(* gl_analyzer.parse_gl_with_mapping: one action per row kind *)

NewSummary(name, type) ==
    [name |-> name, account_type |-> type, total |-> 0,
     transaction_count |-> 0, transactions |-> <<>>]

RECURSIVE JoinPath(_)
\* ":".join(names)
JoinPath(names) ==
    IF names = <<>> THEN <<>> ELSE Head(names) \o JoinPath(Tail(names))

\* The header's full name: "Parent:Child" when that path is a mapping key.
FullAccountName(raw, stack, amap) ==
    LET D == {d \in 1..Len(stack) :
                 IndexOf(amap, JoinPath(SubSeq(stack, 1, d)) \o raw) # 0}
    IN  IF D = {} THEN raw
        ELSE LET d == CHOOSE x \in D : \A y \in D : y <= x
             IN  JoinPath(SubSeq(stack, 1, d)) \o raw

\* Account type of a header: direct lookup, then the fallback chain.
ResolveType(name, amap) ==
    LET direct   == MapGet(amap, name)
        stripped == StripNumber(name)
        t1 == IF stripped # <<>> /\ stripped # name
              THEN MapGet(amap, stripped) ELSE UNKNOWN
        t2 == IF t1 # UNKNOWN THEN t1
              ELSE FirstType(amap, {i \in 1..Len(amap) :
                       EndsWithColon(amap[i].name, name) \/ amap[i].name = name})
        t3 == IF t2 # UNKNOWN THEN t2
              ELSE FirstType(amap, {i \in 1..Len(amap) :
                       EndsWithColon(LowerName(amap[i].name), LowerName(name))})
        t4 == IF t3 # UNKNOWN \/ stripped = <<>> THEN t3
              ELSE FirstType(amap, {i \in 1..Len(amap) :
                       \/ EndsWithColon(amap[i].name, stripped)
                       \/ amap[i].name = stripped
                       \/ EndsWithColon(LowerName(amap[i].name), LowerName(stripped))})
    IN  IF direct # UNKNOWN THEN direct ELSE t4

\* The parent stack after a header row.
StackAfterHeader(raw, stack, amap) ==
    IF \E i \in 1..Len(amap) : StartsWithColon(amap[i].name, raw)
    THEN <<raw>>
    ELSE IF stack = <<>> \/
            ~ \E i \in 1..Len(amap) : StartsWith(amap[i].name, stack[1] \o raw)
         THEN <<>>
         ELSE stack

\* The parent stack after a "Total for X" row.
StackAfterTotal(total_name, stack) ==
    IF stack # <<>> /\ LowerName(stack[Len(stack)]) = LowerName(total_name)
    THEN SubSeq(stack, 1, Len(stack) - 1)
    ELSE LET M == {i \in 1..Len(stack) : LowerName(stack[i]) = LowerName(total_name)}
         IN  IF M = {} THEN stack
             ELSE SubSeq(stack, 1, (CHOOSE x \in M : \A y \in M : y <= x) - 1)

\* gl_totals[account_name] = amount (a dict: a later line overwrites in place)
DictPut(d, name, amount) ==
    IF IndexOf(d, name) = 0
    THEN Append(d, [name |-> name, amount |-> amount])
    ELSE [d EXCEPT ![IndexOf(d, name)].amount = amount]

\* The append without the count.
AddTransactionUncounted(accts, name, txn) ==
    LET i == IndexOf(accts, name)
    IN  IF i = 0 THEN accts
        ELSE [accts EXCEPT ![i].transactions = Append(@, txn)]

\* accounts[current_account].transactions.append(txn); transaction_count += 1
AddTransaction(accts, name, txn) ==
    LET i == IndexOf(accts, name)
    IN  IF i = 0 THEN accts
        ELSE [accts EXCEPT ![i].transactions = Append(@, txn),
                           ![i].transaction_count = @ + 1]

\* account.total = sum(txn.amount for txn in account.transactions)
ComputeTotals(accts) ==
    [i \in 1..Len(accts) |->
        [accts[i] EXCEPT !.total = SumAmounts(accts[i].transactions)]]

\* Account header row: a name in column 0, nothing (or "Beginning Balance")
\* in column 1.
GLHeaderRow(raw) ==
    LET full == FullAccountName(raw, parent_account_stack, account_map)
        type == ResolveType(full, account_map)
    IN  /\ current_account' = full
        /\ current_account_type' = type
        /\ accounts' = IF IndexOf(accounts, full) # 0 THEN accounts
                       ELSE Append(accounts, NewSummary(full, type))
        /\ parent_account_stack' =
               StackAfterHeader(raw, parent_account_stack, account_map)
        /\ UNCHANGED <<all_transactions>>

\* Transaction row: a date in column 1 and a numeric cell in the amount column.
GLTransactionRow(amount) ==
    IF current_account = <<>>
    THEN UNCHANGED <<accounts, all_transactions, current_account,
                     current_account_type, parent_account_stack>>
    ELSE LET txn == [account |-> current_account,
                     account_type |-> current_account_type,
                     amount |-> amount]
         IN  /\ all_transactions' = Append(all_transactions, txn)
             /\ accounts' = AddTransaction(accounts, current_account, txn)
             /\ UNCHANGED <<current_account, current_account_type,
                            parent_account_stack>>

\* A "Total for X" row that also ends the current-account context.
GLTotalForRowClosing(total_name) ==
    /\ parent_account_stack' = StackAfterTotal(total_name, parent_account_stack)
    /\ current_account' = <<>>
    /\ UNCHANGED <<accounts, all_transactions, current_account_type>>

\* "Total for X" row: only pops the parent stack.
GLTotalForRow(total_name) ==
    /\ parent_account_stack' = StackAfterTotal(total_name, parent_account_stack)
    /\ UNCHANGED <<accounts, all_transactions, current_account,
                   current_account_type>>

---------------------------------------------------------------------------
(* expense_analyzer.parse_qbo_gl *)

\* Account type of a header in parse_qbo_gl.
QBOResolveType(name, amap) ==
    LET direct == MapGet(amap, name)
        p1 == FirstType(amap, {i \in 1..Len(amap) :
                  EndsWithColon(amap[i].name, name) \/ amap[i].name = name})
        p2 == IF p1 # UNKNOWN THEN p1
              ELSE FirstType(amap, {i \in 1..Len(amap) :
                       EndsWithColon(LowerName(amap[i].name), LowerName(name))})
        p3 == IF p2 # UNKNOWN THEN p2
              ELSE FirstType(amap, {i \in 1..Len(amap) :
                       /\ Len(name) = 1
                       /\ \E k \in 1..Len(amap[i].name) :
                              Lower(amap[i].name[k]) = Lower(name[1])})
    IN  IF direct # UNKNOWN THEN direct ELSE p3

QBOHeaderRow(raw) ==
    LET type == QBOResolveType(raw, account_map)
    IN  /\ current_account' = raw
        /\ current_account_type' = type
        /\ accounts' = IF IndexOf(accounts, raw) # 0 THEN accounts
                       ELSE Append(accounts, NewSummary(raw, type))
        /\ UNCHANGED <<all_transactions, parent_account_stack>>

QBOTransactionRow(amount) ==
    IF current_account = <<>>
    THEN UNCHANGED <<accounts, all_transactions, current_account,
                     current_account_type, parent_account_stack>>
    ELSE LET txn == [account |-> current_account,
                     account_type |-> current_account_type,
                     amount |-> amount]
         IN  /\ all_transactions' = Append(all_transactions, txn)
             /\ accounts' = AddTransaction(accounts, current_account, txn)
             /\ UNCHANGED <<current_account, current_account_type,
                            parent_account_stack>>

\* accounts[account_name].total = balance, unless "with sub-accounts"
QBOTotalForRow(total_name, with_sub, stated) ==
    /\ accounts' = IF with_sub \/ IndexOf(accounts, total_name) = 0 THEN accounts
                   ELSE [accounts EXCEPT ![IndexOf(accounts, total_name)].total = stated]
    /\ UNCHANGED <<all_transactions, current_account, current_account_type,
                   parent_account_stack>>

---------------------------------------------------------------------------
(* The file, read one row at a time by the parser chosen for the run *)

EmptyResult ==
    [passed |-> TRUE, total_discrepancies |-> 0, discrepancies |-> <<>>,
     missing_accounts |-> <<>>, warnings |-> <<>>]

GLInit ==
    /\ pc = "rows"
    /\ parser \in {"parse_gl_with_mapping", "parse_qbo_gl"}
    /\ account_map = COA
    /\ nrows = 0
    /\ accounts = <<>>
    /\ all_transactions = <<>>
    /\ current_account = <<>>
    /\ current_account_type = UNKNOWN
    /\ parent_account_stack = <<>>
    /\ gl_totals = <<>>
    /\ result = EmptyResult
    /\ map_supplied = FALSE
    /\ compared = <<>>
    /\ malformed_rows = 0

ReadRow ==
    /\ pc = "rows"
    /\ nrows < MaxRows
    /\ nrows' = nrows + 1
    /\ UNCHANGED <<pc, parser, account_map, result, map_supplied, compared>>
    /\ UNCHANGED <<plvars, restvars>>

HeaderRow ==
    /\ ReadRow
    /\ \E raw \in RawNames :
          IF parser = "parse_gl_with_mapping" THEN GLHeaderRow(raw)
          ELSE QBOHeaderRow(raw)
    /\ UNCHANGED <<gl_totals, malformed_rows>>

TransactionRow ==
    /\ ReadRow
    /\ \E amount \in Amounts :
          IF parser = "parse_gl_with_mapping" THEN GLTransactionRow(amount)
          ELSE QBOTransactionRow(amount)
    /\ malformed_rows' = IF current_account = <<>> THEN malformed_rows + 1
                         ELSE malformed_rows
    /\ UNCHANGED gl_totals

\* amount = 0: what the amount stays at when no cell could be converted
DefaultAmount == 0

\* A transaction row with a defect: an amount cell that float() rejects, or
\* no date (nothing in column 1, so the row reads as blank).
MalformedRow ==
    /\ ReadRow
    /\ \E defect \in {"unparseable amount", "missing date"} :
          IF defect = "unparseable amount"
          THEN IF parser = "parse_gl_with_mapping"
               THEN GLTransactionRow(DefaultAmount)
               ELSE QBOTransactionRow(DefaultAmount)
          ELSE UNCHANGED <<accounts, all_transactions, current_account,
                           current_account_type, parent_account_stack>>
    /\ malformed_rows' = malformed_rows + 1
    /\ UNCHANGED gl_totals

\* "Total for X [with sub-accounts]" with the stated total in its last cell.
TotalForRow ==
    /\ ReadRow
    /\ \E total_name \in TotalNames, with_sub \in BOOLEAN, stated \in StatedTotals :
          /\ IF parser = "parse_gl_with_mapping" THEN GLTotalForRow(total_name)
             ELSE QBOTotalForRow(total_name, with_sub, stated)
          /\ gl_totals' = DictPut(gl_totals, total_name, stated)
    /\ UNCHANGED malformed_rows

\* A blank row, or a "Total ..." row that is not "Total for ...".
SkippedRow ==
    /\ ReadRow
    /\ UNCHANGED <<accounts, all_transactions, current_account,
                   current_account_type, parent_account_stack, gl_totals,
                   malformed_rows>>

\* End of file: parse_gl_with_mapping computes the totals and returns;
\* parse_qbo_gl returns the accounts as they are.
EndOfFile ==
    /\ pc = "rows"
    /\ pc' = "parsed"
    /\ accounts' = IF parser = "parse_gl_with_mapping" THEN ComputeTotals(accounts)
                   ELSE accounts
    /\ UNCHANGED <<parser, account_map, nrows, all_transactions, current_account,
                   current_account_type, parent_account_stack, gl_totals,
                   result, map_supplied, compared, malformed_rows>>
    /\ UNCHANGED <<plvars, restvars>>

---------------------------------------------------------------------------
(* validation.validate_gl_parsing *)

\* tolerance_abs = 0.02 dollars, in cents
ToleranceAbsCents == 2

\* tolerance_pct = 0.01, as the fraction TolerancePctNum / TolerancePctDen
TolerancePctNum == 1
TolerancePctDen == 100

\* The parsed account a "Total for X" line is compared with: its index in
\* parsed_accounts, or 0 when no account matches (actual_total is None).
MatchedIndex(account_name, parsed) ==
    IF IndexOf(parsed, account_name) # 0 THEN IndexOf(parsed, account_name)
    ELSE LET S == {i \in 1..Len(parsed) :
                     \/ LowerName(parsed[i].name) = LowerName(account_name)
                     \/ EndsWithColon(LowerName(parsed[i].name), LowerName(account_name))
                     \/ EndsWithColon(LowerName(account_name), LowerName(parsed[i].name))}
         IN  IF S = {} THEN 0 ELSE Min(S)

IsChildOf(parsed_name, account_name) ==
    \/ StartsWithColon(parsed_name, account_name)
    \/ StartsWithColon(LowerName(parsed_name), LowerName(account_name))

\* The parsed accounts whose names start with account_name + ":".
ChildrenOf(account_name, parsed) ==
    SelectSeq(parsed, LAMBDA a : IsChildOf(a.name, account_name))

\* the difference taken the other way round
VarianceSwapped(actual, expected) == expected - actual

\* variance = actual_total - expected_total
Variance(actual, expected) == actual - expected

\* pct_variance, as the exact fraction num/den
PctVariance(variance, expected) ==
    IF expected # 0 THEN [num |-> Abs(variance) * 100, den |-> Abs(expected)]
    ELSE IF variance # 0 THEN [num |-> 100, den |-> 1]
    ELSE [num |-> 0, den |-> 1]

\* abs(variance) <= tolerance_abs
AbsWithin(variance) == Abs(variance) <= ToleranceAbsCents

\* pct_variance <= tolerance_pct
PctWithin(pct) == pct.num <= (TolerancePctNum * pct.den) \div TolerancePctDen

\* within_tolerance
WithinTolerance(variance, pct) == AbsWithin(variance) \/ PctWithin(pct)

\* One iteration of the comparison loop: the locals it computes.
CompareTotal(account_name, expected, parsed) ==
    LET m        == MatchedIndex(account_name, parsed)
        children == ChildrenOf(account_name, parsed)
        found    == m # 0 \/ children # <<>>
        actual   == IF m # 0 THEN parsed[m].total
                    ELSE IF children # <<>> THEN SumTotals(children) ELSE 0
        variance == Variance(actual, expected)
        pct      == PctVariance(variance, expected)
    IN  [account     |-> account_name,
         found       |-> found,
         summed      |-> m = 0 /\ children # <<>>,
         matched_as  |-> IF m # 0 THEN parsed[m].name
                         ELSE IF children # <<>> THEN account_name ELSE <<>>,
         expected    |-> expected,
         actual      |-> actual,
         variance    |-> IF found THEN variance ELSE expected,
         pct_variance |-> IF found THEN pct ELSE [num |-> 100, den |-> 1],
         abs_within  |-> found /\ AbsWithin(variance),
         pct_within  |-> found /\ PctWithin(pct),
         flagged     |-> ~found \/ ~WithinTolerance(variance, pct)]

\* The dict appended to discrepancies for a flagged line.
Discrepancy(c) ==
    [account |-> c.account, matched_as |-> c.matched_as, summed |-> c.summed,
     expected |-> c.expected, actual |-> c.actual, variance |-> c.variance,
     pct_variance |-> c.pct_variance,
     issue |-> IF c.found THEN "Total mismatch"
               ELSE "Account missing from parsed data"]

\* The locals of every iteration, in the order of gl_totals.
ComparedAll(totals, parsed) ==
    [i \in 1..Len(totals) |-> CompareTotal(totals[i].name, totals[i].amount, parsed)]

RECURSIVE Discrepancies(_)
Discrepancies(cs) ==
    IF cs = <<>> THEN <<>>
    ELSE (IF Head(cs).flagged THEN <<Discrepancy(Head(cs))>> ELSE <<>>)
         \o Discrepancies(Tail(cs))

\* A Chart-of-Accounts entry counts as found when a parsed account matches it.
CoaFound(coa_account, parsed) ==
    \E i \in 1..Len(parsed) :
        \/ LowerName(coa_account) = LowerName(parsed[i].name)
        \/ EndsWithColon(LowerName(parsed[i].name), LowerName(coa_account))
        \/ EndsWithColon(LowerName(coa_account), LowerName(parsed[i].name))

CoaIsParent(coa_account, parsed) ==
    \E i \in 1..Len(parsed) :
        StartsWithColon(LowerName(parsed[i].name), LowerName(coa_account))

RECURSIVE MissingAccounts(_, _, _)
\* the loop over account_map.keys(); `missing` is the list built so far
MissingAccounts(amap, parsed, missing) ==
    IF amap = <<>> THEN missing
    ELSE LET coa_account == Head(amap).name
             listed == /\ ~FirstWordHasDigit(coa_account)
                       /\ ~CoaFound(coa_account, parsed)
                       /\ \A k \in 1..Len(missing) : missing[k] # coa_account
                       /\ ~CoaIsParent(coa_account, parsed)
         IN  MissingAccounts(Tail(amap), parsed,
                 IF listed THEN Append(missing, coa_account) ELSE missing)

\* The ValidationResult returned for the parsed accounts and the file's totals.
ValidationResultOf(totals, parsed, amap) ==
    IF totals = <<>>
    THEN [passed |-> TRUE, total_discrepancies |-> 0, discrepancies |-> <<>>,
          missing_accounts |-> <<>>,
          warnings |-> <<"Could not extract 'Total for' lines from GL">>]
    ELSE LET ds == Discrepancies(ComparedAll(totals, parsed))
         IN  [passed |-> Len(ds) = 0,
              total_discrepancies |-> Len(ds),
              discrepancies |-> ds,
              missing_accounts |-> MissingAccounts(amap, parsed, <<>>),
              warnings |-> <<>>]

\* parsed accounts with each matched total overwritten by the file's stated total
Overwritten(totals, parsed) ==
    [i \in 1..Len(parsed) |->
        LET S == {k \in 1..Len(totals) : MatchedIndex(totals[k].name, parsed) = i}
        IN  IF S = {} THEN parsed[i]
            ELSE [parsed[i] EXCEPT !.total = totals[Min(S)].amount]]

\* a validator that auto-corrects the computed totals from the file
validate_autocorrect(with_map) ==
    /\ pc = "parsed"
    /\ parser = "parse_gl_with_mapping"
    /\ pc' = "validated"
    /\ result' = ValidationResultOf(gl_totals, accounts,
                                    IF with_map THEN account_map ELSE <<>>)
    /\ map_supplied' = with_map
    /\ compared' = ComparedAll(gl_totals, accounts)
    /\ UNCHANGED malformed_rows
    /\ accounts' = Overwritten(gl_totals, accounts)
    /\ UNCHANGED <<parser, account_map, nrows, all_transactions,
                   current_account, current_account_type, parent_account_stack,
                   gl_totals>>
    /\ UNCHANGED <<plvars, restvars>>

\* validate_gl_parsing(gl_file, accounts, account_map) after
\* parse_gl_with_mapping; with_map = FALSE passes account_map=None.
validate_gl_parsing(with_map) ==
    /\ pc = "parsed"
    /\ parser = "parse_gl_with_mapping"
    /\ pc' = "validated"
    /\ result' = ValidationResultOf(gl_totals, accounts,
                                    IF with_map THEN account_map ELSE <<>>)
    /\ map_supplied' = with_map
    /\ compared' = ComparedAll(gl_totals, accounts)
    /\ UNCHANGED malformed_rows
    /\ UNCHANGED <<parser, account_map, nrows, accounts, all_transactions,
                   current_account, current_account_type, parent_account_stack,
                   gl_totals>>
    /\ UNCHANGED <<plvars, restvars>>

Validate == \E with_map \in BOOLEAN : validate_gl_parsing(with_map)

GLNext ==
    \/ HeaderRow
    \/ TransactionRow
    \/ MalformedRow
    \/ TotalForRow
    \/ SkippedRow
    \/ EndOfFile
    \/ Validate

\* The P&L parser is not running.
PLIdle ==
    /\ pl_pc = "idle"
    /\ pl_file = [months |-> <<>>, rows |-> <<>>]
    /\ pl_qbo = <<>>
    /\ statement = <<>>
    /\ pl_warnings = <<>>

GLSpecInit == GLInit /\ PLIdle /\ RestIdle

GLSpec == GLSpecInit /\ [][GLNext]_vars

---------------------------------------------------------------------------
(* Claims about the ledger parsers and the validator *)

Parsed == pc \in {"parsed", "validated"}

Validated == pc = "validated"

\* the stated total of discrepancy or comparison c in the file's totals
StatedFor(c) == gl_totals[IndexOf(gl_totals, c.account)].amount

\* the computed total a comparison c was made against
ComputedFor(c) ==
    IF c.summed THEN SumTotals(ChildrenOf(c.account, accounts))
    ELSE accounts[IndexOf(accounts, c.matched_as)].total

\* C1: every AccountSummary returned by a ledger parse has total equal to
\* the sum of amount over its transactions list.
C1_TotalIsSumOfTransactions ==
    Parsed => \A i \in 1..Len(accounts) :
                  accounts[i].total = SumAmounts(accounts[i].transactions)

\* C2: a matched account is flagged as a 'Total mismatch' whenever the
\* variance exceeds the absolute tolerance or exceeds the percentage
\* tolerance; either alone is sufficient.
C2_FlaggedIfEitherToleranceExceeded ==
    Validated => \A i \in 1..Len(compared) :
        (compared[i].found /\ (~compared[i].abs_within \/ ~compared[i].pct_within))
        => \E k \in 1..Len(result.discrepancies) :
               /\ result.discrepancies[k].account = compared[i].account
               /\ result.discrepancies[k].issue = "Total mismatch"

\* C3: with the default arguments the percentage test is passed exactly when
\* |computed - stated| is at most 1% of |stated|, and the absolute test
\* exactly when it is at most $0.02.
C3_PercentageToleranceIsOnePercent ==
    Validated => \A i \in 1..Len(compared) :
        compared[i].found =>
            /\ compared[i].pct_within <=>
                   Abs(compared[i].actual - compared[i].expected) * 100
                       <= Abs(compared[i].expected)
            /\ compared[i].abs_within <=>
                   Abs(compared[i].actual - compared[i].expected) <= 2

\* C4: when every transaction is posted under the children of P and the
\* file's 'Total for P with sub-accounts' equals the sum of the children's
\* computed totals, P is compared with that sum and no discrepancy is
\* reported for P.
C4_ParentRollupNotFlagged ==
    Validated => \A i \in 1..Len(gl_totals) :
        LET P == gl_totals[i].name
            children == ChildrenOf(P, accounts)
        IN  ( /\ children # <<>>
              /\ \A t \in 1..Len(all_transactions) :
                     IsChildOf(all_transactions[t].account, P)
              /\ gl_totals[i].amount = SumTotals(children) )
            => /\ compared[i].actual = SumTotals(children)
               /\ \A k \in 1..Len(result.discrepancies) :
                      result.discrepancies[k].account # P

\* C5: a reported discrepancy for a matched 'Total for X' line has
\* variance = computed total - stated total, and passed is TRUE exactly when
\* the discrepancies list is empty; stated 1200.00 against computed 1150.00
\* for a single account gives one discrepancy with variance -50.00.
C5_VarianceAndPassed ==
    Validated =>
        /\ \A k \in 1..Len(result.discrepancies) :
               LET d == result.discrepancies[k]
               IN  d.issue = "Total mismatch" =>
                       /\ IndexOf(gl_totals, d.account) # 0
                       /\ d.variance = ComputedFor(d) - StatedFor(d)
        /\ result.passed <=> (result.discrepancies = <<>>)
        /\ ( /\ Len(gl_totals) = 1
             /\ gl_totals[1].amount = 120000
             /\ Len(accounts) = 1
             /\ accounts[1].name = gl_totals[1].name
             /\ accounts[1].total = 115000 )
           => /\ Len(result.discrepancies) = 1
              /\ result.discrepancies[1].account = gl_totals[1].name
              /\ result.discrepancies[1].variance = -5000
              /\ result.passed = FALSE

C5_Witness ==
    /\ Validated
    /\ Len(gl_totals) = 1
    /\ gl_totals[1].amount = 120000
    /\ Len(accounts) = 1
    /\ accounts[1].name = gl_totals[1].name
    /\ accounts[1].total = 115000
    /\ Len(result.discrepancies) = 1
    /\ result.discrepancies[1].variance = -5000

\* C6: the computed account is chosen by strict priority: exact name, else
\* case-insensitive full name, else ':'-suffix match, else the sum of the
\* accounts prefixed 'X:', whatever the order of the parsed accounts.
C6_MatchPriority ==
    Validated => \A i \in 1..Len(compared) :
        LET c     == compared[i]
            exact == IndexOf(accounts, c.account) # 0
            ci    == \E a \in 1..Len(accounts) :
                         LowerName(accounts[a].name) = LowerName(c.account)
            sfx   == \E a \in 1..Len(accounts) :
                         \/ EndsWithColon(LowerName(accounts[a].name), LowerName(c.account))
                         \/ EndsWithColon(LowerName(c.account), LowerName(accounts[a].name))
        IN  /\ exact => (c.matched_as = c.account /\ ~c.summed)
            /\ (~exact /\ ci) =>
                   (LowerName(c.matched_as) = LowerName(c.account) /\ ~c.summed)
            /\ (~exact /\ ~ci /\ sfx) =>
                   /\ ~c.summed
                   /\ \/ EndsWithColon(LowerName(c.matched_as), LowerName(c.account))
                      \/ EndsWithColon(LowerName(c.account), LowerName(c.matched_as))
            /\ (~exact /\ ~ci /\ ~sfx /\ ChildrenOf(c.account, accounts) # <<>>) =>
                   c.summed

\* C7: validate_gl_parsing never changes the parsed data, and a detected
\* mismatch reports both the expected and the actual value, overwriting
\* neither.
C7_ValidationLeavesParsedData ==
    [][ (pc = "parsed" /\ pc' = "validated") =>
            /\ accounts' = accounts
            /\ all_transactions' = all_transactions
            /\ account_map' = account_map
            /\ gl_totals' = gl_totals
            /\ \A k \in 1..Len(result'.discrepancies) :
                   LET d == result'.discrepancies[k]
                   IN  d.issue = "Total mismatch" =>
                           /\ d.expected = gl_totals[IndexOf(gl_totals, d.account)].amount
                           /\ d.actual =
                                  IF d.summed
                                  THEN SumTotals(ChildrenOf(d.account, accounts'))
                                  ELSE accounts'[IndexOf(accounts', d.matched_as)].total
      ]_vars

C7_Witness ==
    /\ Validated
    /\ ~result.passed
    /\ \E k \in 1..Len(result.discrepancies) :
           /\ result.discrepancies[k].issue = "Total mismatch"
           /\ result.discrepancies[k].actual = 100
           /\ result.discrepancies[k].expected = 120000

\* C8: with an account map supplied, every Chart-of-Accounts entry with zero
\* matched transactions is listed in missing_accounts (number-prefixed keys
\* and parents of parsed accounts aside), also when its header row appears
\* in the GL with no transaction under it.
C8_ZeroTransactionEntriesListed ==
    (Validated /\ map_supplied /\ gl_totals # <<>>) =>
        \A e \in 1..Len(account_map) :
            LET coa == account_map[e].name
            IN  ( /\ ~FirstWordHasDigit(coa)
                  /\ ~CoaIsParent(coa, accounts)
                  /\ \A a \in 1..Len(accounts) :
                         ( \/ LowerName(coa) = LowerName(accounts[a].name)
                           \/ EndsWithColon(LowerName(accounts[a].name), LowerName(coa))
                           \/ EndsWithColon(LowerName(coa), LowerName(accounts[a].name)) )
                         => accounts[a].transaction_count = 0 )
                => \E k \in 1..Len(result.missing_accounts) :
                       result.missing_accounts[k] = coa

---------------------------------------------------------------------------
(* pl_parser: the Profit & Loss by Month export *)

\* Leaf line items per section in the generated exports.
MaxItems == 1

\* Column labels of the header row after "Distribution account".
PLMonths == <<"January 2025", "February 2025", "Total">>

INCOME == "Income"
COGS == "Cost of Goods Sold"
GROSS_PROFIT == "Gross Profit"
EXPENSES == "Expenses"
NET_OPERATING_INCOME == "Net Operating Income"
OTHER_INCOME == "Other Income"
OTHER_EXPENSE == "Other Expense"
NET_OTHER_INCOME == "Net Other Income"
NET_INCOME == "Net Income"
PL_UNKNOWN == "Unknown"

\* account_name.lower() for the row names of the exports
PLLower(name) ==
    CASE name = "Income"                       -> "income"
      [] name = "INCOME"                       -> "income"
      [] name = "Cost of Goods Sold"           -> "cost of goods sold"
      [] name = "Gross Profit"                 -> "gross profit"
      [] name = "Expenses"                     -> "expenses"
      [] name = "Net Operating Income"         -> "net operating income"
      [] name = "Other Income"                 -> "other income"
      [] name = "Other Expenses"               -> "other expenses"
      [] name = "Net Income"                   -> "net income"
      [] name = "Total for Income"             -> "total for income"
      [] name = "Total for Cost of Goods Sold" -> "total for cost of goods sold"
      [] name = "Total for Expenses"           -> "total for expenses"
      [] name = "Total for Other Income"       -> "total for other income"
      [] name = "Total for Other Expense"      -> "total for other expense"
      [] name = "Total for Other Expenses"     -> "total for other expenses"
      [] name = "Total for Penalties"          -> "total for penalties"
      [] name = "Sales"                        -> "sales"
      [] name = "Materials"                    -> "materials"
      [] name = "Rent"                         -> "rent"
      [] name = "Interest Earned"              -> "interest earned"
      [] name = "Penalties"                    -> "penalties"
      [] name = "Total"                        -> "total"
      [] OTHER                                 -> name

detect_section(row_name, current_section) ==
    LET name_lower == PLLower(row_name)
    IN  CASE name_lower \in {"income", "revenue"} -> INCOME
          [] name_lower \in {"cost of goods sold", "cost of sales", "cogs"} -> COGS
          [] name_lower = "gross profit" -> GROSS_PROFIT
          [] name_lower \in {"expenses", "operating expenses"} -> EXPENSES
          [] name_lower \in {"net operating income", "operating income"}
                -> NET_OPERATING_INCOME
          [] name_lower = "other income" -> OTHER_INCOME
          [] name_lower \in {"other expense", "other expenses", "other costs"}
                -> OTHER_EXPENSE
          [] name_lower \in {"net other income", "total other income/expense"}
                -> NET_OTHER_INCOME
          [] name_lower = "net income" -> NET_INCOME
          [] OTHER -> current_section

\* the is_qbo_total list
IsQboTotal(name_lower) ==
    name_lower \in
        {"gross profit", "net operating income", "operating income",
         "net other income", "net income",
         "total for income", "total income", "total revenue",
         "total for cost of goods sold", "total cost of goods sold", "total cogs",
         "total for expenses", "total expenses", "total operating expenses",
         "total for other income", "total other income",
         "total for other expense", "total other expense", "total other expenses"}

\* name.lower().startswith("total for ") or name.lower().startswith("total ")
StartsWithTotal(name_lower) ==
    name_lower \in
        {"total for income", "total for cost of goods sold", "total for expenses",
         "total for other income", "total for other expense",
         "total for other expenses", "total for penalties"}

\* a dict with no entry
EmptyDict == [m \in {} |-> 0]

\* d.get(key, 0)
Get(d, key) == IF key \in DOMAIN d THEN d[key] ELSE 0

Range(seq) == {seq[i] : i \in 1..Len(seq)}

\* {month: parse_currency(cell)} over the header's columns; a blank cell is 0.0
MonthlyValues(months, values) ==
    [m \in Range(months) |->
        LET j == CHOOSE k \in 1..Len(months) : months[k] = m
        IN  IF j <= Len(values) THEN values[j] ELSE 0]

EmptyQbo ==
    [total_income |-> EmptyDict, total_cogs |-> EmptyDict,
     total_expenses |-> EmptyDict, gross_profit |-> EmptyDict,
     net_operating_income |-> EmptyDict, total_other_income |-> EmptyDict,
     total_other_expense |-> EmptyDict, net_income |-> EmptyDict]

\* The qbo_* temporaries after a QuickBooks total row.
Capture(qbo, name_lower, mv) ==
    CASE name_lower = "gross profit" -> [qbo EXCEPT !.gross_profit = mv]
      [] name_lower \in {"net operating income", "operating income"}
            -> [qbo EXCEPT !.net_operating_income = mv]
      [] name_lower = "net income" -> [qbo EXCEPT !.net_income = mv]
      [] name_lower \in {"total for income", "total income", "total revenue"}
            -> [qbo EXCEPT !.total_income = mv]
      [] name_lower \in {"total for cost of goods sold", "total cost of goods sold",
                         "total cogs"}
            -> [qbo EXCEPT !.total_cogs = mv]
      [] name_lower \in {"total for expenses", "total expenses",
                         "total operating expenses"}
            -> [qbo EXCEPT !.total_expenses = mv]
      [] name_lower \in {"total for other income", "total other income"}
            -> [qbo EXCEPT !.total_other_income = mv]
      [] name_lower \in {"total for other expense", "total other expense",
                         "total other expenses", "total for other expenses"}
            -> [qbo EXCEPT !.total_other_expense = mv]
      [] OTHER -> qbo

\* the nearest preceding line item at a lower indent level, <<>> for None
ParentOf(parent_stack, indent_level) ==
    LET S == {k \in 1..Len(parent_stack) : parent_stack[k].indent < indent_level}
    IN  IF indent_level > 0 /\ S # {}
        THEN <<parent_stack[CHOOSE x \in S : \A y \in S : y <= x].name>>
        ELSE <<>>

\* One iteration of the row loop on the loop's state st.
ParseRow(months, row, st) ==
    LET new_section == detect_section(row.name, st.current_section)
        name_lower  == PLLower(row.name)
        mv          == MonthlyValues(months, row.values)
        is_total    == StartsWithTotal(name_lower)
        st1         == [st EXCEPT !.current_section = new_section]
    IN  IF new_section # st.current_section /\ row.values = <<>>
        THEN st1
        ELSE IF IsQboTotal(name_lower)
        THEN [st1 EXCEPT !.qbo = Capture(st.qbo, name_lower, mv)]
        ELSE [st1 EXCEPT
                !.parent_stack =
                    IF is_total THEN @
                    ELSE Append(SelectSeq(@, LAMBDA e : e.indent < row.indent),
                                [name |-> row.name, indent |-> row.indent]),
                !.line_items = Append(@,
                    [name |-> row.name,
                     section |-> new_section,
                     parent |-> ParentOf(st.parent_stack, row.indent),
                     monthly_values |-> mv,
                     total |-> IF months = <<>> THEN 0
                               ELSE Get(mv, months[Len(months)]),
                     is_total_row |-> is_total,
                     indent_level |-> row.indent])]

RECURSIVE ParseRows(_, _, _)
\* the loop over the data rows after the header row
ParseRows(months, rows, st) ==
    IF rows = <<>> THEN st
    ELSE ParseRows(months, Tail(rows), ParseRow(months, Head(rows), st))

LoopStart ==
    [current_section |-> PL_UNKNOWN, parent_stack |-> <<>>, line_items |-> <<>>,
     qbo |-> EmptyQbo]

(* The exports read: QuickBooks' fixed layout, each part present or absent *)

Row(name, indent, values) == [name |-> name, indent |-> indent, values |-> values]

\* n leaf rows of one section; the first is a parent, the others its children
Items(name, values, n) ==
    [k \in 1..n |-> Row(name, IF k = 1 THEN 0 ELSE 1, values)]

Opt(present, row) == IF present THEN <<row>> ELSE <<>>

\* Cell values in cents, one per column of PLMonths.
IncomeValues == <<1000000, 1200000, 2200000>>
CogsValues == <<300000, 300000, 600000>>
ExpenseValues == <<400000, 450000, 850000>>
OtherIncomeValues == <<5000, 5000, 10000>>
OtherExpenseValues == <<2000, 2000, 4000>>
GrossProfitValues == <<700000, 900000, 1600000>>
NetOperatingValues == <<300000, 450000, 750000>>
NetIncomeValues == <<300000, 450000, 750000>>

\* A "Gross Profit" row that disagrees with the section totals by $100.00.
GrossProfitRestated == <<710000, 900000, 1610000>>

\* A "Gross Profit" row whose month cells disagree with the section totals
\* while its "Total" cell agrees.
GrossProfitMonthsOff == <<710000, 890000, 1600000>>

\* What an export holds: the number of leaf rows per section (`other` for
\* each of the two Other sections), which total rows are present (oe_total:
\* the name of the total row closing the Other Expenses section, a section
\* total or the sub-account total "Total for Penalties"; "": none), and the
\* cells of the "Gross Profit" row (<<>>: no such row).
PLChoices ==
    [inc : 0..MaxItems, inc_total : BOOLEAN,
     cogs : 0..MaxItems, cogs_total : BOOLEAN,
     gp : {<<>>, GrossProfitValues, GrossProfitRestated, GrossProfitMonthsOff},
     exp : 0..MaxItems, exp_total : BOOLEAN, noi : BOOLEAN,
     other : 0..MaxItems, oi_total : BOOLEAN,
     oe_total : {"", "Total for Other Expense", "Total for Other Expenses",
                 "Total for Penalties"},
     ni : BOOLEAN]

PLRows(c) ==
    <<Row("Income", 0, <<>>)>>
    \o Items("Sales", IncomeValues, c.inc)
    \o Opt(c.inc_total, Row("Total for Income", 0, IncomeValues))
    \o <<Row("Cost of Goods Sold", 0, <<>>)>>
    \o Items("Materials", CogsValues, c.cogs)
    \o Opt(c.cogs_total, Row("Total for Cost of Goods Sold", 0, CogsValues))
    \o Opt(c.gp # <<>>, Row("Gross Profit", 0, c.gp))
    \o <<Row("Expenses", 0, <<>>)>>
    \o Items("Rent", ExpenseValues, c.exp)
    \o Opt(c.exp_total, Row("Total for Expenses", 0, ExpenseValues))
    \o Opt(c.noi, Row("Net Operating Income", 0, NetOperatingValues))
    \o <<Row("Other Income", 0, <<>>)>>
    \o Items("Interest Earned", OtherIncomeValues, c.other)
    \o Opt(c.oi_total, Row("Total for Other Income", 0, OtherIncomeValues))
    \o <<Row("Other Expenses", 0, <<>>)>>
    \o Items("Penalties", OtherExpenseValues, c.other)
    \o Opt(c.oe_total # "", Row(c.oe_total, 0, OtherExpenseValues))
    \o Opt(c.ni, Row("Net Income", 0, NetIncomeValues))

PLFiles == { [months |-> PLMonths, rows |-> PLRows(c)] : c \in PLChoices }

---------------------------------------------------------------------------
(* parse_pl_csv, step by step *)

\* PLStatement(company_name, date_range, months, line_items): the totals
\* default to empty dicts.
NewStatement(months, line_items) ==
    [months |-> months, line_items |-> line_items,
     total_income |-> EmptyDict, total_cogs |-> EmptyDict,
     gross_profit |-> EmptyDict, total_expenses |-> EmptyDict,
     net_operating_income |-> EmptyDict, total_other_income |-> EmptyDict,
     total_other_expense |-> EmptyDict, net_income |-> EmptyDict]

\* if qbo_x: statement.x = qbo_x
Assigned(old, captured) == IF DOMAIN captured # {} THEN captured ELSE old

AssignQbo(st, qbo) ==
    [st EXCEPT
        !.total_income = Assigned(@, qbo.total_income),
        !.total_cogs = Assigned(@, qbo.total_cogs),
        !.total_expenses = Assigned(@, qbo.total_expenses),
        !.total_other_income = Assigned(@, qbo.total_other_income),
        !.total_other_expense = Assigned(@, qbo.total_other_expense),
        !.gross_profit = Assigned(@, qbo.gross_profit),
        !.net_operating_income = Assigned(@, qbo.net_operating_income),
        !.net_income = Assigned(@, qbo.net_income)]

\* all_months: the month columns and "Total"
AllMonths(months) ==
    IF months # <<>> /\ PLLower(months[Len(months)]) = "total"
    THEN Append(SubSeq(months, 1, Len(months) - 1), "Total")
    ELSE Append(months, "Total")

RECURSIVE SumItems(_, _, _), SumItemsWithTotals(_, _, _)
\* the sum of one column over every line item tagged `section`, total rows
\* included
SumItemsWithTotals(items, section, month) ==
    IF items = <<>> THEN 0
    ELSE (IF Head(items).section = section
          THEN Get(Head(items).monthly_values, month) ELSE 0)
         + SumItemsWithTotals(Tail(items), section, month)

\* the sum of one column over the non-total line items tagged `section`
SumItems(items, section, month) ==
    IF items = <<>> THEN 0
    ELSE (IF ~Head(items).is_total_row /\ Head(items).section = section
          THEN Get(Head(items).monthly_values, month) ELSE 0)
         + SumItems(Tail(items), section, month)

\* calculated_<section>: zero for every column of all_months, plus the
\* line items' values
Calculated(st, section) ==
    LET keys == Range(AllMonths(st.months)) \cup
                UNION { DOMAIN st.line_items[i].monthly_values :
                          i \in { k \in 1..Len(st.line_items) :
                                    /\ ~st.line_items[k].is_total_row
                                    /\ st.line_items[k].section = section } }
    IN  [m \in keys |-> SumItems(st.line_items, section, m)]

\* the condition under which the line items are summed at all
SumsLineItems(has_qbo_income, has_qbo_expenses) ==
    ~has_qbo_income \/ ~has_qbo_expenses

\* statement.<total> after the summation block, for one section
SectionTotal(st, old, section, sums) ==
    IF sums /\ DOMAIN old = {} THEN Calculated(st, section) ELSE old

\* the gross profit line with the cost of goods added instead of deducted
GrossProfitOfAdded(income, cogs) == income + cogs

\* statement.gross_profit[month] = total_income - total_cogs
GrossProfitOf(income, cogs) == income - cogs

\* statement.net_operating_income[month] = gross_profit - total_expenses
NetOperatingIncomeOf(gross_profit, expenses) == gross_profit - expenses

\* statement.net_income[month] = net_operating_income + net_other
NetIncomeOf(net_operating_income, other_income, other_expense) ==
    net_operating_income + (other_income - other_expense)

calculate_section_totals(st) ==
    LET all_months == Range(AllMonths(st.months))
        sums == SumsLineItems(DOMAIN st.total_income # {},
                              DOMAIN st.total_expenses # {})
        ti == SectionTotal(st, st.total_income, INCOME, sums)
        tc == SectionTotal(st, st.total_cogs, COGS, sums)
        te == SectionTotal(st, st.total_expenses, EXPENSES, sums)
        toi == SectionTotal(st, st.total_other_income, OTHER_INCOME, sums)
        toe == SectionTotal(st, st.total_other_expense, OTHER_EXPENSE, sums)
        gp == [m \in DOMAIN st.gross_profit \cup all_months |->
                 IF m \in DOMAIN st.gross_profit THEN st.gross_profit[m]
                 ELSE GrossProfitOf(Get(ti, m), Get(tc, m))]
        noi == [m \in DOMAIN st.net_operating_income \cup all_months |->
                 IF m \in DOMAIN st.net_operating_income
                 THEN st.net_operating_income[m]
                 ELSE NetOperatingIncomeOf(Get(gp, m), Get(te, m))]
        ni == [m \in DOMAIN st.net_income \cup all_months |->
                 IF m \in DOMAIN st.net_income THEN st.net_income[m]
                 ELSE NetIncomeOf(Get(noi, m), Get(toi, m), Get(toe, m))]
    IN  [st EXCEPT !.total_income = ti, !.total_cogs = tc, !.total_expenses = te,
                   !.total_other_income = toi, !.total_other_expense = toe,
                   !.gross_profit = gp, !.net_operating_income = noi,
                   !.net_income = ni]

\* tol = 0.01 dollars, in cents
PLToleranceCents == 1

\* the list of errors: the three identities checked on the "Total" column
validate_pl_totals(st) ==
    IF "Total" \notin DOMAIN st.total_income THEN <<>>
    ELSE LET income == Get(st.total_income, "Total")
             cogs == Get(st.total_cogs, "Total")
             gross_profit == Get(st.gross_profit, "Total")
             expenses == Get(st.total_expenses, "Total")
             net_op_income == Get(st.net_operating_income, "Total")
             other_income == Get(st.total_other_income, "Total")
             other_expense == Get(st.total_other_expense, "Total")
             net_income == Get(st.net_income, "Total")
         IN  (IF Abs(gross_profit - (income - cogs)) > PLToleranceCents
              THEN <<"Gross Profit mismatch">> ELSE <<>>)
             \o (IF Abs(net_op_income - (gross_profit - expenses)) > PLToleranceCents
                 THEN <<"Net Operating Income mismatch">> ELSE <<>>)
             \o (IF Abs(net_income - (net_op_income + other_income - other_expense))
                       > PLToleranceCents
                 THEN <<"Net Income mismatch">> ELSE <<>>)

PLInit ==
    /\ pl_pc = "start"
    /\ pl_file \in PLFiles
    /\ pl_qbo = EmptyQbo
    /\ statement = NewStatement(<<>>, <<>>)
    /\ pl_warnings = <<>>

\* the row loop, then PLStatement(...)
PLParseRows ==
    /\ pl_pc = "start"
    /\ pl_pc' = "parsed"
    /\ LET st == ParseRows(pl_file.months, pl_file.rows, LoopStart)
       IN  /\ pl_qbo' = st.qbo
           /\ statement' = NewStatement(pl_file.months, st.line_items)
    /\ UNCHANGED <<pl_file, pl_warnings>>
    /\ UNCHANGED <<glvars, restvars>>

\* "Assign QBO's values (source of truth from the P&L report)"
PLAssignQbo ==
    /\ pl_pc = "parsed"
    /\ pl_pc' = "assigned"
    /\ statement' = AssignQbo(statement, pl_qbo)
    /\ UNCHANGED <<pl_file, pl_qbo, pl_warnings>>
    /\ UNCHANGED <<glvars, restvars>>

PLCalculate ==
    /\ pl_pc = "assigned"
    /\ pl_pc' = "calculated"
    /\ statement' = calculate_section_totals(statement)
    /\ UNCHANGED <<pl_file, pl_qbo, pl_warnings>>
    /\ UNCHANGED <<glvars, restvars>>

\* validate_pl_totals, then return statement
PLValidate ==
    /\ pl_pc = "calculated"
    /\ pl_pc' = "returned"
    /\ pl_warnings' = validate_pl_totals(statement)
    /\ UNCHANGED <<pl_file, pl_qbo, statement>>
    /\ UNCHANGED <<glvars, restvars>>

PLNext ==
    \/ PLParseRows
    \/ PLAssignQbo
    \/ PLCalculate
    \/ PLValidate

\* The ledger parser is not running.
GLIdle ==
    /\ pc = "idle"
    /\ parser = "none"
    /\ account_map = <<>>
    /\ nrows = 0
    /\ accounts = <<>>
    /\ all_transactions = <<>>
    /\ current_account = <<>>
    /\ current_account_type = UNKNOWN
    /\ parent_account_stack = <<>>
    /\ gl_totals = <<>>
    /\ result = EmptyResult
    /\ map_supplied = FALSE
    /\ compared = <<>>
    /\ malformed_rows = 0

PLSpecInit == PLInit /\ GLIdle /\ RestIdle

PLSpec == PLSpecInit /\ [][PLNext]_vars

---------------------------------------------------------------------------
(* Properties of parse_pl_csv *)

Returned == pl_pc = "returned"

\* the export has a data row with one of these (lower-cased) names
HasRow(names) ==
    \E i \in 1..Len(pl_file.rows) : PLLower(pl_file.rows[i].name) \in names

IncomeTotalNames == {"total for income", "total income", "total revenue"}
CogsTotalNames ==
    {"total for cost of goods sold", "total cost of goods sold", "total cogs"}
ExpensesTotalNames ==
    {"total for expenses", "total expenses", "total operating expenses"}
OtherIncomeTotalNames == {"total for other income", "total other income"}
OtherExpenseTotalNames ==
    {"total for other expense", "total other expense", "total other expenses",
     "total for other expenses"}
NetOperatingNames == {"net operating income", "operating income"}

GrossProfitHolds(m) ==
    Abs(Get(statement.gross_profit, m)
        - (Get(statement.total_income, m) - Get(statement.total_cogs, m)))
      <= PLToleranceCents

NetOperatingIncomeHolds(m) ==
    Abs(Get(statement.net_operating_income, m)
        - (Get(statement.gross_profit, m) - Get(statement.total_expenses, m)))
      <= PLToleranceCents

NetIncomeHolds(m) ==
    Abs(Get(statement.net_income, m)
        - (Get(statement.net_operating_income, m)
           + Get(statement.total_other_income, m)
           - Get(statement.total_other_expense, m)))
      <= PLToleranceCents

\* the cells of the export's row of that name are the statement's figures
KeptAsStated(names, figures) ==
    \A i \in 1..Len(pl_file.rows) :
        PLLower(pl_file.rows[i].name) \in names
            => \A j \in 1..Len(pl_file.months) :
                   Get(figures, pl_file.months[j]) = pl_file.rows[i].values[j]

\* Income [10000, 12000], COGS [3000, 3000], Expenses [4000, 4500] as line
\* items, with no total row and no subtotal row.
ExampleExport ==
    [months |-> PLMonths,
     rows |-> PLRows([inc |-> 1, inc_total |-> FALSE, cogs |-> 1,
                      cogs_total |-> FALSE, gp |-> <<>>, exp |-> 1,
                      exp_total |-> FALSE, noi |-> FALSE, other |-> 0,
                      oi_total |-> FALSE, oe_total |-> "", ni |-> FALSE])]

ExampleFigures ==
    /\ Get(statement.gross_profit, "January 2025") = 700000
    /\ Get(statement.gross_profit, "February 2025") = 900000
    /\ Get(statement.net_operating_income, "January 2025") = 300000
    /\ Get(statement.net_operating_income, "February 2025") = 450000
    /\ Get(statement.net_income, "January 2025") = 300000
    /\ Get(statement.net_income, "February 2025") = 450000

\* C9 (as stated): in every returned statement, for every month column and
\* the Total column, gross profit = income - COGS, net operating income =
\* gross profit - expenses and net income = net operating income + other
\* income - other expense, each within one cent, also when the figures were
\* taken from the export's subtotal rows.
C9_IdentitiesInEveryStatement ==
    Returned =>
        \A m \in Range(statement.months) \cup {"Total"} :
            GrossProfitHolds(m) /\ NetOperatingIncomeHolds(m) /\ NetIncomeHolds(m)

\* C9 (amended): in every returned statement, for every month column and
\* the Total column (an absent entry reading as 0), each of the three
\* identities holds within one cent when the export has no row for its
\* left-hand side, so that the figure was derived; a Gross Profit, Net
\* Operating Income or Net Income row of the export is carried into the
\* statement as stated, whether or not the identity holds; and the line
\* items Income [10000, 12000], COGS [3000, 3000], Expenses [4000, 4500]
\* without total or subtotal rows give Gross Profit [7000, 9000] and
\* Net Operating Income = Net Income = [3000, 4500].
C9_IdentitiesWhereDerived ==
    Returned =>
        /\ \A m \in Range(AllMonths(statement.months)) :
              /\ ~HasRow({"gross profit"}) => GrossProfitHolds(m)
              /\ ~HasRow(NetOperatingNames) => NetOperatingIncomeHolds(m)
              /\ ~HasRow({"net income"}) => NetIncomeHolds(m)
        /\ KeptAsStated({"gross profit"}, statement.gross_profit)
        /\ KeptAsStated(NetOperatingNames, statement.net_operating_income)
        /\ KeptAsStated({"net income"}, statement.net_income)
        /\ pl_file = ExampleExport => ExampleFigures

\* The worked example has been parsed and its figures derived.
C9_Witness ==
    /\ Returned
    /\ pl_file = ExampleExport
    /\ ~HasRow({"gross profit"})
    /\ Get(statement.total_cogs, "January 2025") = 300000
    /\ Get(statement.gross_profit, "January 2025") = 700000

\* C10: for each of the five section totals independently, when the export
\* has no total row for the section, the statement's total for every month
\* is the sum of that month's values over the section's non-total line
\* items, whichever other sections have a total row.
C10_SectionTotalIsSumWithoutTotalRow ==
    Returned =>
        \A m \in Range(statement.months) :
            /\ ~HasRow(IncomeTotalNames)
                  => Get(statement.total_income, m)
                       = SumItems(statement.line_items, INCOME, m)
            /\ ~HasRow(CogsTotalNames)
                  => Get(statement.total_cogs, m)
                       = SumItems(statement.line_items, COGS, m)
            /\ ~HasRow(ExpensesTotalNames)
                  => Get(statement.total_expenses, m)
                       = SumItems(statement.line_items, EXPENSES, m)
            /\ ~HasRow(OtherIncomeTotalNames)
                  => Get(statement.total_other_income, m)
                       = SumItems(statement.line_items, OTHER_INCOME, m)
            /\ ~HasRow(OtherExpenseTotalNames)
                  => Get(statement.total_other_expense, m)
                       = SumItems(statement.line_items, OTHER_EXPENSE, m)

\* the columns of the returned statement: each month and "Total"
StatementColumns == Range(statement.months) \cup {"Total"}

\* C11: a violation of any of the three identities beyond one cent in any
\* column of the assembled statement (a month or Total) produces a warning
\* from validate_pl_totals; equivalently, a statement without a warning
\* satisfies the identities in every column.
C11_ViolationInAnyColumnWarned ==
    Returned =>
        ( (\E m \in StatementColumns :
               ~(GrossProfitHolds(m) /\ NetOperatingIncomeHolds(m)
                                     /\ NetIncomeHolds(m)))
          => pl_warnings # <<>> )

\* C12: when the export has a Gross Profit, Net Operating Income, Net Income
\* or "Total for <section>" row, the corresponding field of the returned
\* statement holds that row's parsed values in every column, never a
\* recomputed figure, even when the values violate an identity.
C12_ExportRowsAreAuthoritative ==
    Returned =>
        /\ KeptAsStated({"gross profit"}, statement.gross_profit)
        /\ KeptAsStated(NetOperatingNames, statement.net_operating_income)
        /\ KeptAsStated({"net income"}, statement.net_income)
        /\ KeptAsStated(IncomeTotalNames, statement.total_income)
        /\ KeptAsStated(CogsTotalNames, statement.total_cogs)
        /\ KeptAsStated(ExpensesTotalNames, statement.total_expenses)
        /\ KeptAsStated(OtherIncomeTotalNames, statement.total_other_income)
        /\ KeptAsStated(OtherExpenseTotalNames, statement.total_other_expense)

\* the line item made from a row of the export, if any
ItemOf(row) ==
    {k \in 1..Len(statement.line_items) :
        /\ statement.line_items[k].name = row.name
        /\ statement.line_items[k].monthly_values
              = MonthlyValues(pl_file.months, row.values)}

RECURSIVE LeafSum(_, _, _)
\* the sum of one column over the section's line items whose names do not
\* begin with "Total"
LeafSum(items, section, month) ==
    IF items = <<>> THEN 0
    ELSE (IF Head(items).section = section
             /\ ~StartsWithTotal(PLLower(Head(items).name))
          THEN Get(Head(items).monthly_values, month) ELSE 0)
         + LeafSum(Tail(items), section, month)

\* every section total that was computed by summation is the sum over the
\* rows that are not total rows
NoTotalRowInSums ==
    (DOMAIN pl_qbo.total_income = {} \/ DOMAIN pl_qbo.total_expenses = {}) =>
        \A m \in Range(statement.months) :
            /\ DOMAIN pl_qbo.total_income = {}
                  => Get(statement.total_income, m)
                       = LeafSum(statement.line_items, INCOME, m)
            /\ DOMAIN pl_qbo.total_cogs = {}
                  => Get(statement.total_cogs, m)
                       = LeafSum(statement.line_items, COGS, m)
            /\ DOMAIN pl_qbo.total_expenses = {}
                  => Get(statement.total_expenses, m)
                       = LeafSum(statement.line_items, EXPENSES, m)
            /\ DOMAIN pl_qbo.total_other_income = {}
                  => Get(statement.total_other_income, m)
                       = LeafSum(statement.line_items, OTHER_INCOME, m)
            /\ DOMAIN pl_qbo.total_other_expense = {}
                  => Get(statement.total_other_expense, m)
                       = LeafSum(statement.line_items, OTHER_EXPENSE, m)

\* C13 (as stated): every data row whose name begins with "Total for " or
\* "Total " is retained in line_items with is_total_row = True, and no
\* is_total_row line item contributes to a section sum.
C13_EveryTotalRowRetained ==
    Returned =>
        /\ \A i \in 1..Len(pl_file.rows) :
              StartsWithTotal(PLLower(pl_file.rows[i].name))
                  => \E k \in ItemOf(pl_file.rows[i]) :
                         statement.line_items[k].is_total_row
        /\ NoTotalRowInSums

\* C13 (amended): a data row with values whose name begins with "Total for "
\* or "Total " is retained in line_items with is_total_row = True unless it
\* is one of the QuickBooks summary rows the parser captures into the
\* statement's total fields, which are not line items; is_total_row is True
\* exactly for the line items with such a name; and no is_total_row line
\* item contributes to a section sum.
C13_TotalRowsRetainedUnlessCaptured ==
    Returned =>
        /\ \A i \in 1..Len(pl_file.rows) :
              LET name_lower == PLLower(pl_file.rows[i].name)
              IN  /\ (StartsWithTotal(name_lower) /\ ~IsQboTotal(name_lower))
                        => \E k \in ItemOf(pl_file.rows[i]) :
                               statement.line_items[k].is_total_row
                  /\ IsQboTotal(name_lower)
                        => \A k \in 1..Len(statement.line_items) :
                               statement.line_items[k].name # pl_file.rows[i].name
        /\ \A k \in 1..Len(statement.line_items) :
              statement.line_items[k].is_total_row
                  <=> StartsWithTotal(PLLower(statement.line_items[k].name))
        /\ NoTotalRowInSums

\* A sub-account total row was retained and left out of its section's sum,
\* next to a section total row that was captured.
C13_Witness ==
    /\ Returned
    /\ HasRow({"total for expenses"})
    /\ \E k \in 1..Len(statement.line_items) :
          /\ statement.line_items[k].name = "Total for Penalties"
          /\ statement.line_items[k].is_total_row
    /\ \E k \in 1..Len(statement.line_items) :
          statement.line_items[k].name = "Penalties"
    /\ DOMAIN pl_qbo.total_income = {}
    /\ Get(statement.total_other_expense, "January 2025") = 2000

---------------------------------------------------------------------------
(* Malformed rows of the General Ledger *)

\* What the ledger parsers hand back besides accounts and transactions: they
\* return the pair (accounts, all_transactions) and keep no list of warnings.
ParserWarnings == <<>>

\* C14: parse_gl_with_mapping skips each malformed transaction row
\* (unparseable amount, or missing date) individually: the row emits no
\* Transaction and leaves the accounts and the transactions as they are, so
\* that the result is that of the same rows without the malformed ones.
C14_MalformedRowsSkipped ==
    [][ (parser = "parse_gl_with_mapping" /\ malformed_rows' # malformed_rows)
            => UNCHANGED <<accounts, all_transactions>> ]_vars

\* C15: every row the ledger parser skips as malformed (unparseable amount,
\* missing date, or a transaction row read with no account open) is recorded
\* in a list of warnings handed to the caller, one warning per skipped row.
C15_SkippedRowsRecorded ==
    Parsed => Len(ParserWarnings) = malformed_rows

---------------------------------------------------------------------------
(* gl_analyzer.parse_gl_with_mapping: the amount of one transaction row *)

\* Cells of a spreadsheet row: NaN, a number (cents), or text.
NaN == [kind |-> "nan", v |-> 0]
Num(v) == [kind |-> "num", v |-> v]
Text == [kind |-> "text", v |-> 0]

\* pd.notna(cell)
NotNa(cell) == cell.kind # "nan"

\* row[j], columns counted from 0
Cell(r, j) == r[j + 1]

\* find_col's default: no such column (None)
NoCol == -1

\* amount_col = find_col(['amount'], 8)
DefaultAmountCol == 8

\* name in col_name, for the labels of the headers below
Contains(col_name, name) == col_name = name

\* find_col([name], default): the first labelled column whose label contains
\* the name
find_col(hdr, name, default) ==
    LET S == {j \in 0..(Len(hdr) - 1) :
                 Cell(hdr, j) # "" /\ Contains(Cell(hdr, j), name)}
    IN  IF S = {} THEN default ELSE Min(S)

\* float(val) for a debit or credit cell that is present
DebitOrCredit(r, col) ==
    IF col # NoCol /\ col # 0 /\ Len(r) > col /\ NotNa(Cell(r, col))
    THEN Cell(r, col).v ELSE 0

\* Strategy 3: the rightmost of the last three columns holding a non-zero
\* number
ScanAmount(r) ==
    LET lo == (IF Len(r) - 4 > 0 THEN Len(r) - 4 ELSE 0) + 1
        S  == {j \in lo..(Len(r) - 1) :
                  Cell(r, j).kind = "num" /\ Cell(r, j).v # 0}
    IN  IF S = {} THEN DefaultAmount
        ELSE Cell(r, CHOOSE x \in S : \A y \in S : y <= x).v

\* "Get amount - try multiple strategies": the amount and the strategy used
ExtractAmount(hdr, r) ==
    LET amount_col == find_col(hdr, "amount", DefaultAmountCol)
        debit_col  == find_col(hdr, "debit", NoCol)
        credit_col == find_col(hdr, "credit", NoCol)
    IN  IF amount_col # NoCol /\ amount_col # 0 /\ Len(r) > amount_col
           /\ NotNa(Cell(r, amount_col))
        THEN [amount |-> IF Cell(r, amount_col).kind = "num"
                         THEN Cell(r, amount_col).v ELSE DefaultAmount,
              strategy |-> "amount column"]
        ELSE IF debit_col # NoCol \/ credit_col # NoCol
        THEN [amount |-> DebitOrCredit(r, debit_col) - DebitOrCredit(r, credit_col),
              strategy |-> "debit/credit"]
        ELSE [amount |-> ScanAmount(r), strategy |-> "scan"]

\* Header rows of General Ledger exports, lower-cased, one label per column.
Headers ==
    { <<"", "date", "transaction type", "num", "adj", "name",
        "memo/description", "split", "amount", "balance">>,
      <<"", "date", "transaction type", "num", "name", "memo/description",
        "split", "debit", "credit", "balance">>,
      <<"", "date", "transaction type", "num", "name", "memo/description",
        "debit", "credit">>,
      <<"", "date", "transaction type", "num", "name", "memo/description",
        "split", "balance">> }

\* What a money column of a row holds: nothing or a number (cents).
MoneyCells == {NaN, Num(5000), Num(2000), Num(12500)}

\* the labels of the money columns
MoneyLabels == {"amount", "debit", "credit", "balance"}

\* Transaction rows as wide as the header: blank in column 0, a number or
\* nothing in each money column, text in every other column.
CellsUnder(label) ==
    IF label = "" THEN {NaN}
    ELSE IF label \in MoneyLabels THEN MoneyCells ELSE {Text}

RECURSIVE RowsUpTo(_, _)
\* the rows' first n cells
RowsUpTo(hdr, n) ==
    IF n = 0 THEN {<<>>}
    ELSE {Append(r, c) : r \in RowsUpTo(hdr, n - 1), c \in CellsUnder(hdr[n])}

RowsFor(hdr) == RowsUpTo(hdr, Len(hdr))

AmountInit ==
    /\ am_pc = "row"
    /\ am_header \in Headers
    /\ am_row \in RowsFor(am_header)
    /\ am_amount = DefaultAmount
    /\ am_strategy = "none"

\* the amount of the transaction row is extracted
GetAmount ==
    /\ am_pc = "row"
    /\ am_pc' = "extracted"
    /\ LET e == ExtractAmount(am_header, am_row)
       IN  am_amount' = e.amount /\ am_strategy' = e.strategy
    /\ UNCHANGED <<am_header, am_row>>
    /\ UNCHANGED <<glvars, plvars, dtvars, exvars, hdvars, bsvars, curvars, auvars>>

AmountNext == GetAmount

AmountSpecInit == AmountInit /\ GLIdle /\ PLIdle /\ DateIdle /\ ExpenseIdle /\ HeaderIdle /\ BuildIdle /\ CurrencyIdle /\ AuthIdle

AmountSpec == AmountSpecInit /\ [][AmountNext]_vars

HasColumn(name) == find_col(am_header, name, NoCol) # NoCol

\* C16: a detected Amount header column is used when present; when the
\* header has no Amount column but has Debit and/or Credit columns the
\* amount is debit - credit; the rightmost-column scan is used only when
\* neither an Amount nor a Debit/Credit column was detected.
C16_AmountPreference ==
    am_pc = "extracted" =>
        LET amount_col == find_col(am_header, "amount", NoCol)
        IN  /\ (HasColumn("amount") /\ NotNa(Cell(am_row, amount_col)))
                  => am_amount = Cell(am_row, amount_col).v
            /\ (~HasColumn("amount") /\ (HasColumn("debit") \/ HasColumn("credit")))
                  => am_amount
                       = DebitOrCredit(am_row, find_col(am_header, "debit", NoCol))
                         - DebitOrCredit(am_row, find_col(am_header, "credit", NoCol))
            /\ am_strategy = "scan"
                  => ~(HasColumn("amount") \/ HasColumn("debit")
                                           \/ HasColumn("credit"))


----------------------------------------------------------------------------
\* Date handling of parse_gl_with_mapping (gl_analyzer.py): the date_format
\* option, detect_date_format, and the normalisation of each transaction
\* row's date.  The sheet is reduced to its date column; row indices are
\* those of the DataFrame (0-based), so row i is dt_col1[i + 1].

MaxDates == 2

\* Rows detect_date_format passes over before it starts looking.
DetectSkipRows == 5

MonthsInYear == 12

DateCell(kind, a, b) == [kind |-> kind, first |-> a, second |-> b]

\* A '/'-separated date string "a/b/2025".
DateStr(a, b) == DateCell("str", a, b)

\* A cell Excel delivered as a timestamp of month m, day d.
Timestamp(m, d) == DateCell("ts", m, d)

\* A blank cell and a cell of non-date text (titles, the "Date" header).
BlankCell == DateCell("nan", 0, 0)
TextCell == DateCell("text", 0, 0)

\* "25/03/2025", "03/25/2025", "03/04/2025" and a timestamp of 4 March.
DateCells == {DateStr(25, 3), DateStr(3, 25), DateStr(3, 4), Timestamp(3, 4)}

\* Positions of the header row: the default QuickBooks one and its neighbours.
HeaderRows == {2, 3, 4}

\* A sheet with the header at row h: title rows and the header, one account
\* header row (blank date cell), then MaxDates transaction rows.
SheetsFor(h) ==
    { [i \in 1..(h + 2 + MaxDates) |->
          IF i <= h + 1 THEN TextCell
          ELSE IF i = h + 2 THEN BlankCell
          ELSE d[i - h - 2]] : d \in [1..MaxDates -> DateCells] }

\* detect_date_format: True iff some row at index 5 or later holds a
\* '/'-separated string whose first component exceeds 12.
detect_date_format(col) ==
    \E i \in 0..(Len(col) - 1) :
        /\ i >= DetectSkipRows
        /\ col[i + 1].kind = "str"
        /\ col[i + 1].first > MonthsInYear

\* The override that ignores the option (always detects).
DayFirstDetected(fmt, col) == detect_date_format(col)

\* The dayfirst flag chosen from the option.
DayFirstFor(fmt, col) ==
    IF fmt = "dmy" THEN TRUE
    ELSE IF fmt = "mdy" THEN FALSE
    ELSE detect_date_format(col)

Raw == [kind |-> "raw", month |-> 0, day |-> 0]
Date(m, d) == [kind |-> "date", month |-> m, day |-> d]

\* pd.to_datetime(value, dayfirst=flag) on a '/'-separated string: the flag
\* is a preference; when the preferred reading has no such month the other
\* reading is taken, and when neither reads as a date it raises (Raw).
ToDatetime(cell, flag) ==
    LET preferred == IF flag THEN Date(cell.second, cell.first)
                             ELSE Date(cell.first, cell.second)
        other     == IF flag THEN Date(cell.first, cell.second)
                             ELSE Date(cell.second, cell.first)
    IN  IF preferred.month <= MonthsInYear THEN preferred
        ELSE IF other.month <= MonthsInYear THEN other
        ELSE Raw

\* The date of a transaction row: timestamps are formatted as they are,
\* strings go through pd.to_datetime, a failure keeps the raw string.
NormalizeDate(cell, flag) ==
    IF cell.kind = "ts" THEN Date(cell.first, cell.second)
    ELSE ToDatetime(cell, flag)

DateInit ==
    /\ dt_pc = "start"
    /\ date_format \in {"auto", "mdy", "dmy"}
    /\ dt_header_row \in HeaderRows
    /\ dt_col1 \in SheetsFor(dt_header_row)
    /\ dt_i = 0
    /\ dayfirst = FALSE
    /\ detection_ran = FALSE
    /\ dt_dates = <<>>

\* "Determine date format": the option decides, detection only for auto.
DetermineDateFormat ==
    /\ dt_pc = "start"
    /\ dayfirst' = DayFirstFor(date_format, dt_col1)
    /\ detection_ran' = (date_format \notin {"dmy", "mdy"})
    /\ dt_i' = dt_header_row + 1
    /\ dt_pc' = "parsing"
    /\ UNCHANGED <<date_format, dt_header_row, dt_col1, dt_dates>>
    /\ UNCHANGED <<glvars, plvars, amvars, exvars, hdvars, bsvars, curvars, auvars>>

\* One row of the main loop: a row with a date cell is a transaction row and
\* its date is normalised; a row with a blank date cell carries no date.
ParseDateRow ==
    /\ dt_pc = "parsing"
    /\ dt_i < Len(dt_col1)
    /\ LET cell == dt_col1[dt_i + 1]
       IN  IF cell.kind \in {"str", "ts"}
           THEN dt_dates' = Append(dt_dates,
                                   [row  |-> dt_i,
                                    cell |-> cell,
                                    date |-> NormalizeDate(cell, dayfirst)])
           ELSE UNCHANGED dt_dates
    /\ dt_i' = dt_i + 1
    /\ UNCHANGED <<dt_pc, date_format, dt_header_row, dt_col1, dayfirst,
                   detection_ran>>
    /\ UNCHANGED <<glvars, plvars, amvars, exvars, hdvars, bsvars, curvars, auvars>>

DateReturn ==
    /\ dt_pc = "parsing"
    /\ dt_i = Len(dt_col1)
    /\ dt_pc' = "returned"
    /\ UNCHANGED <<date_format, dt_header_row, dt_col1, dt_i, dayfirst,
                   detection_ran, dt_dates>>
    /\ UNCHANGED <<glvars, plvars, amvars, exvars, hdvars, bsvars, curvars, auvars>>

DateNext == DetermineDateFormat \/ ParseDateRow \/ DateReturn

DateSpecInit == DateInit /\ GLIdle /\ PLIdle /\ AmountIdle /\ ExpenseIdle /\ HeaderIdle /\ BuildIdle /\ CurrencyIdle /\ AuthIdle

DateSpec == DateSpecInit /\ [][DateNext]_vars

\* The format has been determined.
Determined == dt_pc \in {"parsing", "returned"}

\* Some transaction row after the header holds a '/'-separated date whose
\* first component exceeds 12.
DayFirstDatePresent ==
    \E i \in (dt_header_row + 1)..(Len(dt_col1) - 1) :
        /\ dt_col1[i + 1].kind = "str"
        /\ dt_col1[i + 1].first > MonthsInYear

\* C17: day-first detection returns True whenever a '/'-separated date with
\* a first component above 12 sits anywhere among the transaction rows after
\* the header, and False when no first component exceeds 12.
C17_DayFirstDetectedAnywhere ==
    (Determined /\ detection_ran) => (dayfirst = DayFirstDatePresent)

\* The string dates of the transaction rows parsed so far.
StringDates == { k \in 1..Len(dt_dates) : dt_dates[k].cell.kind = "str" }

\* Both components of the date string could be a month.
Ambiguous(cell) == cell.first <= MonthsInYear /\ cell.second <= MonthsInYear

DayFirstReading(cell) == Date(cell.second, cell.first)
MonthFirstReading(cell) == Date(cell.first, cell.second)

\* C18 as stated: with date_format='dmy' every string date is parsed
\* day-first and with 'mdy' month-first, whatever dates the file contains;
\* detection runs only for 'auto'.
C18_OptionFixesEveryDate ==
    Determined =>
        /\ detection_ran <=> (date_format = "auto")
        /\ date_format = "dmy" =>
              \A k \in StringDates :
                  dt_dates[k].date = DayFirstReading(dt_dates[k].cell)
        /\ date_format = "mdy" =>
              \A k \in StringDates :
                  dt_dates[k].date = MonthFirstReading(dt_dates[k].cell)

\* C18 (amended): an explicit option fixes the dayfirst flag handed to the
\* date parser (True for 'dmy', False for 'mdy') whatever dates the file
\* contains, and detection runs only for 'auto'; every string date both of
\* whose components are at most 12 is then read day-first under 'dmy' and
\* month-first under 'mdy', while a date with one component above 12 is read
\* with that component as the day under either option.
C18_OptionOverridesDetection ==
    Determined =>
        /\ detection_ran <=> (date_format = "auto")
        /\ date_format = "dmy" => dayfirst
        /\ date_format = "mdy" => ~dayfirst
        /\ \A k \in StringDates :
              LET cell == dt_dates[k].cell
              IN  /\ (date_format = "dmy" /\ Ambiguous(cell))
                        => dt_dates[k].date = DayFirstReading(cell)
                  /\ (date_format = "mdy" /\ Ambiguous(cell))
                        => dt_dates[k].date = MonthFirstReading(cell)
                  /\ (date_format # "auto" /\ cell.first > MonthsInYear)
                        => dt_dates[k].date = DayFirstReading(cell)
                  /\ (date_format # "auto" /\ cell.second > MonthsInYear)
                        => dt_dates[k].date = MonthFirstReading(cell)

\* 'mdy' chosen for a sheet in which detection would have answered day-first:
\* the ambiguous date is still read month-first.
C18_Witness ==
    /\ dt_pc = "returned"
    /\ date_format = "mdy"
    /\ detect_date_format(dt_col1)
    /\ ~detection_ran
    /\ \E k \in StringDates :
          /\ Ambiguous(dt_dates[k].cell)
          /\ dt_dates[k].date = MonthFirstReading(dt_dates[k].cell)
          /\ dt_dates[k].date # DayFirstReading(dt_dates[k].cell)

----------------------------------------------------------------------------
\* Expense categories (expense_analyzer.py and the analysis handler of
\* app.py): variance statistics, anomaly flags and the order of the list.
\* Amounts are whole currency units.  The coefficient of variation is kept
\* exactly, as the fraction that is its square (std^2 / mean^2): all the
\* code does with it is compare it, and squaring keeps the order of
\* non-negative numbers.

MaxAccounts == 3

Frac(n, d) == [num |-> n, den |-> d]

ZeroCV == Frac(0, 1)

\* a < b for fractions with positive denominators.
Less(a, b) == a.num * b.den < b.num * a.den

\* CV_CONSISTENT_THRESHOLD = 0.15 and CV_VOLATILE_THRESHOLD = 0.50, squared.
CV_CONSISTENT_THRESHOLD == Frac(15 * 15, 100 * 100)
CV_VOLATILE_THRESHOLD == Frac(50 * 50, 100 * 100)

RECURSIVE Sum(_)
Sum(values) ==
    IF values = <<>> THEN 0 ELSE Head(values) + Sum(Tail(values))

RECURSIVE SumSq(_)
SumSq(values) ==
    IF values = <<>> THEN 0
    ELSE Head(values) * Head(values) + SumSq(Tail(values))

\* The monthly values with the zero months kept.
EveryMonth(values) == values

\* non_zero = [v for v in values if v > 0]
RECURSIVE NonZero(_)
NonZero(values) ==
    IF values = <<>> THEN <<>>
    ELSE IF Head(values) > 0 THEN <<Head(values)>> \o NonZero(Tail(values))
    ELSE NonZero(Tail(values))

\* (statistics.stdev(v) / statistics.mean(v))^2 for n >= 2 positive values:
\* the sample variance is (n*Q - S^2) / (n*(n-1)) and the mean S/n.
SquaredCV(v) ==
    LET n == Len(v)
        S == Sum(v)
        Q == SumSq(v)
    IN  Frac(n * (n * Q - S * S), (n - 1) * S * S)

\* statistics.mean(v), exactly.
Mean(v) == Frac(Sum(v), Len(v))

\* statistics.stdev(v) squared, exactly: the sample variance of n >= 2
\* values.
SquaredStdev(v) ==
    LET n == Len(v)
    IN  Frac(n * SumSq(v) - Sum(v) * Sum(v), n * (n - 1))

\* The comparison with the threshold, with <= in place of <.
IsConsistentAtMost(cv) == ~Less(CV_CONSISTENT_THRESHOLD, cv)

\* is_consistent = cv < CV_CONSISTENT_THRESHOLD
IsConsistent(cv) == Less(cv, CV_CONSISTENT_THRESHOLD)

\* calculate_variance_stats: (mean, std_dev, cv, is_consistent), the standard
\* deviation kept as its square like the CV.  With fewer than two months of
\* activity it returns (0, 0, 0, True).
calculate_variance_stats(monthly) ==
    LET non_zero == NonZero(monthly)
    IN  IF Len(monthly) < 2 \/ Len(non_zero) < 2
        THEN [mean |-> ZeroCV, std |-> ZeroCV, cv |-> ZeroCV,
              is_consistent |-> TRUE]
        ELSE LET cv == SquaredCV(non_zero)
             IN  [mean |-> Mean(non_zero), std |-> SquaredStdev(non_zero),
                  cv |-> cv, is_consistent |-> IsConsistent(cv)]

\* non_zero_vals = [abs(v) for v in monthly_vals if v != 0]
RECURSIVE NonZeroVals(_)
NonZeroVals(values) ==
    IF values = <<>> THEN <<>>
    ELSE IF Head(values) # 0
         THEN <<Abs(Head(values))>> \o NonZeroVals(Tail(values))
         ELSE NonZeroVals(Tail(values))

\* The statistics of the handler: with one month of activity the average is
\* that month's amount, and is_consistent is computed from the CV in every
\* case.
HandlerStats(monthly) ==
    LET non_zero_vals == NonZeroVals(monthly)
        stats == IF Len(non_zero_vals) >= 2
                 THEN [mean |-> Mean(non_zero_vals),
                       std  |-> SquaredStdev(non_zero_vals),
                       cv   |-> SquaredCV(non_zero_vals)]
                 ELSE [mean |-> IF non_zero_vals = <<>> THEN ZeroCV
                                ELSE Frac(non_zero_vals[1], 1),
                       std  |-> ZeroCV,
                       cv   |-> ZeroCV]
    IN  [mean |-> stats.mean, std |-> stats.std, cv |-> stats.cv,
         is_consistent |-> IsConsistent(stats.cv)]

\* Account names, with the first keyword of EXPENSE_CLASSIFICATIONS found in
\* the lower-cased name; the handler's CONSISTENT_KEYWORDS has "rent" and
\* "insurance" and no keyword found in the other two names.
ExpenseNames == <<"Rent", "Insurance", "Travel", "Office Supplies">>

KeywordIn(name) ==
    CASE name = "Rent" -> "rent"
      [] name = "Travel" -> "travel"
      [] name = "Office Supplies" -> "office supplies"
      [] name = "Insurance" -> "insurance"
      [] OTHER -> ""

\* The "consistent" entry of EXPENSE_CLASSIFICATIONS for a keyword.
ConsistentKeyword(keyword) == keyword \in {"rent", "insurance"}

\* The third component of classify_expense(name), and the handler's
\* any(kw in name_lower for kw in CONSISTENT_KEYWORDS).
ConsistencyExpected(name) == ConsistentKeyword(KeywordIn(name))

\* Monthly amounts of an account over three months: flat; CV exactly 0.15;
\* CV just above 0.15; CV exactly 0.50; CV well above 0.50; one month of
\* activity; no activity; two months of activity around an idle month.
MonthlySeries ==
    { <<10, 10, 10>>, <<17, 20, 23>>, <<10, 14, 12>>, <<30, 60, 90>>,
      <<10, 25, 4>>, <<20, 0, 0>>, <<0, 0, 0>>, <<10, 0, 14>> }

AccountCount == IF MaxAccounts < Len(ExpenseNames) THEN MaxAccounts
                ELSE Len(ExpenseNames)

\* The ExpenseCategory built for one account.
CategoryOf(path, account) ==
    LET stats == IF path = "analyze_expense_categories"
                 THEN calculate_variance_stats(account.monthly)
                 ELSE HandlerStats(account.monthly)
        consistency_expected == ConsistencyExpected(account.name)
    IN  [name                     |-> account.name,
         total                    |-> Sum(account.monthly),
         monthly_trend            |-> account.monthly,
         monthly_avg              |-> stats.mean,
         monthly_std              |-> stats.std,
         coefficient_of_variation |-> stats.cv,
         is_consistent            |-> stats.is_consistent,
         consistency_expected     |-> consistency_expected,
         has_anomaly              |-> /\ consistency_expected
                                      /\ ~stats.is_consistent
                                      /\ Less(CV_CONSISTENT_THRESHOLD, stats.cv)]

\* Accounts with no total are left out.
RECURSIVE CategoriesOf(_, _)
CategoriesOf(path, accts) ==
    IF accts = <<>> THEN <<>>
    ELSE IF Sum(Head(accts).monthly) = 0
         THEN CategoriesOf(path, Tail(accts))
         ELSE <<CategoryOf(path, Head(accts))>>
              \o CategoriesOf(path, Tail(accts))

\* The second component of the sort key, negated: the CV of a category that
\* is not consistent, 0 otherwise.
Volatility(c) == IF c.is_consistent THEN ZeroCV ELSE c.coefficient_of_variation

\* key(a) < key(b).  analyze_expense_categories sorts by
\* (-int(has_anomaly), -cv if not is_consistent else 0, -total); the handler
\* walks the items by abs(total), largest first.
KeyLess(path, a, b) ==
    IF path = "analyze_expense_categories"
    THEN \/ a.has_anomaly /\ ~b.has_anomaly
         \/ /\ a.has_anomaly = b.has_anomaly
            /\ \/ Less(Volatility(b), Volatility(a))
               \/ /\ ~Less(Volatility(a), Volatility(b))
                  /\ a.total > b.total
    ELSE a.total > b.total

\* Stable sort: c goes before the first element whose key is greater.
RECURSIVE Insert(_, _, _)
Insert(path, sorted, c) ==
    IF sorted = <<>> THEN <<c>>
    ELSE IF KeyLess(path, c, Head(sorted)) THEN <<c>> \o sorted
    ELSE <<Head(sorted)>> \o Insert(path, Tail(sorted), c)

RECURSIVE SortedBy(_, _)
SortedBy(path, cats) ==
    IF cats = <<>> THEN <<>>
    ELSE Insert(path, SortedBy(path, SubSeq(cats, 1, Len(cats) - 1)),
                cats[Len(cats)])

ExpenseInit ==
    /\ ex_pc = "start"
    /\ ex_path \in {"analyze_expense_categories", "handler"}
    /\ ex_accounts \in { [k \in 1..AccountCount |->
                            [name |-> ExpenseNames[k], monthly |-> m[k]]]
                         : m \in [1..AccountCount -> MonthlySeries] }
    /\ ex_categories = <<>>

\* analyze_expense_categories builds the categories and sorts them.
analyze_expense_categories ==
    /\ ex_pc = "start"
    /\ ex_path = "analyze_expense_categories"
    /\ ex_categories' = SortedBy(ex_path, CategoriesOf(ex_path, ex_accounts))
    /\ ex_pc' = "analyzed"
    /\ UNCHANGED <<ex_path, ex_accounts>>
    /\ UNCHANGED <<glvars, plvars, amvars, dtvars, hdvars, bsvars, curvars, auvars>>

\* The handler walks the expense items in order of size and builds one
\* category for each.
HandlerCategories ==
    /\ ex_pc = "start"
    /\ ex_path = "handler"
    /\ ex_categories' = SortedBy(ex_path, CategoriesOf(ex_path, ex_accounts))
    /\ ex_pc' = "analyzed"
    /\ UNCHANGED <<ex_path, ex_accounts>>
    /\ UNCHANGED <<glvars, plvars, amvars, dtvars, hdvars, bsvars, curvars, auvars>>

ExpenseNext == analyze_expense_categories \/ HandlerCategories

ExpenseSpecInit == ExpenseInit /\ GLIdle /\ PLIdle /\ AmountIdle /\ DateIdle /\ HeaderIdle /\ BuildIdle /\ CurrencyIdle /\ AuthIdle

ExpenseSpec == ExpenseSpecInit /\ [][ExpenseNext]_vars

Analyzed == ex_pc = "analyzed"

Flat(monthly) == \A i, j \in 1..Len(monthly) : monthly[i] = monthly[j]

AtThreshold(cv) ==
    cv.num * CV_CONSISTENT_THRESHOLD.den = CV_CONSISTENT_THRESHOLD.num * cv.den

\* C19: for every expense category is_consistent holds iff CV < 0.15 and
\* has_anomaly holds iff consistency_expected and not is_consistent and
\* CV > 0.15; a category whose CV equals the threshold is neither consistent
\* nor an anomaly, a flat 'Rent' series is consistent and no anomaly, and a
\* 'Rent' series with CV above 0.15 is an anomaly.
C19_ConsistencyAndAnomaly ==
    Analyzed =>
        \A k \in 1..Len(ex_categories) :
            LET c  == ex_categories[k]
                cv == c.coefficient_of_variation
            IN  /\ c.is_consistent <=> Less(cv, CV_CONSISTENT_THRESHOLD)
                /\ c.has_anomaly <=> /\ c.consistency_expected
                                     /\ ~c.is_consistent
                                     /\ Less(CV_CONSISTENT_THRESHOLD, cv)
                /\ AtThreshold(cv) => ~c.is_consistent /\ ~c.has_anomaly
                /\ (c.name = "Rent" /\ Flat(c.monthly_trend))
                      => cv.num = 0 /\ c.is_consistent /\ ~c.has_anomaly
                /\ (c.name = "Rent" /\ Less(CV_CONSISTENT_THRESHOLD, cv))
                      => c.has_anomaly

\* A 'Rent' category whose CV is exactly the threshold (17, 20, 23) is
\* neither consistent nor an anomaly, next to one that is above it.
C19_Witness ==
    /\ Analyzed
    /\ \E k \in 1..Len(ex_categories) :
          /\ ex_categories[k].name = "Rent"
          /\ AtThreshold(ex_categories[k].coefficient_of_variation)
          /\ ~ex_categories[k].is_consistent
          /\ ~ex_categories[k].has_anomaly
    /\ \E k \in 1..Len(ex_categories) :
          /\ ex_categories[k].consistency_expected
          /\ ex_categories[k].has_anomaly

\* The months of a category in which there was activity.
ActiveMonths(c) == SelectSeq(c.monthly_trend, LAMBDA v : v # 0)

SameFrac(a, b) == a.num * b.den = b.num * a.den

\* C28: the variance statistics use only the non-zero monthly values: with
\* two or more of them the mean, the standard deviation and the CV of a
\* category are those of its non-zero months alone, and with fewer than two
\* the CV is 0, is_consistent is True and has_anomaly is False, whatever the
\* name of the category.
C28_ZeroMonthsLeftOut ==
    Analyzed =>
        \A k \in 1..Len(ex_categories) :
            LET c      == ex_categories[k]
                active == ActiveMonths(c)
            IN  IF Len(active) >= 2
                THEN /\ SameFrac(c.monthly_avg, Mean(active))
                     /\ SameFrac(c.monthly_std, SquaredStdev(active))
                     /\ SameFrac(c.coefficient_of_variation, SquaredCV(active))
                ELSE /\ c.coefficient_of_variation.num = 0
                     /\ c.is_consistent
                     /\ ~c.has_anomaly

\* 'Rent' with one month of activity (20, 0, 0) is consistent and no anomaly,
\* next to a category with an idle month between two active ones (10, 0, 14)
\* whose CV is that of 10 and 14 alone.
C28_Witness ==
    /\ Analyzed
    /\ \E k \in 1..Len(ex_categories) :
          /\ ex_categories[k].name = "Rent"
          /\ ex_categories[k].monthly_trend = <<20, 0, 0>>
          /\ ex_categories[k].consistency_expected
          /\ ex_categories[k].is_consistent
          /\ ~ex_categories[k].has_anomaly
    /\ \E k \in 1..Len(ex_categories) :
          /\ ex_categories[k].monthly_trend = <<10, 0, 14>>
          /\ SameFrac(ex_categories[k].coefficient_of_variation,
                      SquaredCV(<<10, 14>>))

\* 1 for an anomaly, 2 for another category with CV above 0.50, 3 otherwise.
Tier(c) ==
    IF c.has_anomaly THEN 1
    ELSE IF Less(CV_VOLATILE_THRESHOLD, c.coefficient_of_variation) THEN 2
    ELSE 3

\* C20: the ExpenseCategory list is ordered in three tiers: categories with
\* has_anomaly first, then the others with CV above 0.50, then the rest; and
\* within a tier in descending order of total.
C20_ThreeTierOrder ==
    Analyzed =>
        \A i, j \in 1..Len(ex_categories) :
            i < j =>
                /\ Tier(ex_categories[i]) <= Tier(ex_categories[j])
                /\ Tier(ex_categories[i]) = Tier(ex_categories[j])
                      => ex_categories[i].total >= ex_categories[j].total

----------------------------------------------------------------------------
\* Account headers of parse_gl_with_mapping against Charts of Accounts with
\* deeper nesting and numbered accounts: the rows are account headers and
\* 'Total for' rows only.  open_blocks records the headers read whose
\* 'Total for' row has not been read yet.

HeaderNames ==
    { <<"Marketing">>, <<"Print">>, <<"Flyers">>, <<"Google Ads">>,
      <<"1000 Utilities">> }

HeaderTotalNames == { <<"Marketing">>, <<"Print">>, <<"Google Ads">> }

\* A Chart of Accounts nested two levels deep.
DeepCOA == << [name |-> <<"Marketing">>,                    type |-> "Expense"],
              [name |-> <<"Marketing", "Google Ads">>,      type |-> "Expense"],
              [name |-> <<"Marketing", "Print">>,           type |-> "Expense"],
              [name |-> <<"Marketing", "Print", "Flyers">>, type |-> "Expense"] >>

\* A Chart of Accounts that keys a numbered account under its parent and
\* has another account under the bare name.
CodedCOA ==
    << [name |-> <<"Utilities">>,                            type |-> "Other Expense"],
       [name |-> <<"Operating Expenses", "1000 Utilities">>, type |-> "Expense"] >>

HeaderMaps == {COA, DeepCOA, CodedCOA}

\* The open blocks after 'Total for X': X's block and those inside it close.
CloseBlock(blocks, total_name) ==
    LET M == {i \in 1..Len(blocks) : blocks[i] = total_name}
    IN  IF M = {} THEN blocks
        ELSE SubSeq(blocks, 1, (CHOOSE x \in M : \A y \in M : y <= x) - 1)

HeaderInit ==
    /\ pc = "rows"
    /\ parser = "parse_gl_with_mapping"
    /\ account_map \in HeaderMaps
    /\ nrows = 0
    /\ accounts = <<>>
    /\ all_transactions = <<>>
    /\ current_account = <<>>
    /\ current_account_type = UNKNOWN
    /\ parent_account_stack = <<>>
    /\ gl_totals = <<>>
    /\ result = EmptyResult
    /\ map_supplied = FALSE
    /\ compared = <<>>
    /\ malformed_rows = 0
    /\ open_blocks = <<>>

WalkRow ==
    /\ pc = "rows"
    /\ nrows < MaxRows
    /\ nrows' = nrows + 1
    /\ UNCHANGED <<pc, parser, account_map, gl_totals, result, map_supplied,
                   compared, malformed_rows>>
    /\ UNCHANGED <<plvars, amvars, dtvars, exvars, bsvars, curvars, auvars>>

WalkHeaderRow ==
    /\ WalkRow
    /\ \E raw \in HeaderNames :
          /\ GLHeaderRow(raw)
          /\ open_blocks' = Append(open_blocks, raw)

WalkTotalForRow ==
    /\ WalkRow
    /\ \E total_name \in HeaderTotalNames :
          /\ GLTotalForRow(total_name)
          /\ open_blocks' = CloseBlock(open_blocks, total_name)

HeaderNext == WalkHeaderRow \/ WalkTotalForRow

HeaderSpecInit == HeaderInit /\ PLIdle /\ AmountIdle /\ DateIdle /\ ExpenseIdle /\ BuildIdle /\ CurrencyIdle /\ AuthIdle

HeaderSpec == HeaderSpecInit /\ [][HeaderNext]_vars

\* Types of the Chart-of-Accounts entries whose path ends with ':' + name,
\* compared case-insensitively.
SuffixTypes(name) ==
    { account_map[i].type : i \in { j \in 1..Len(account_map) :
          EndsWithColon(LowerName(account_map[j].name), LowerName(name)) } }

\* C21: for an account header with no direct Chart-of-Accounts key the type
\* comes first from an entry whose 'Parent:Child' path ends with ':' + the
\* header name (case-insensitive), and only if there is none from the name
\* with its leading account number stripped; it is Unknown only when neither
\* lookup finds an entry.
C21_PathSuffixBeforeStrippedName ==
    (current_account # <<>> /\ IndexOf(account_map, current_account) = 0) =>
        LET stripped == StripNumber(current_account)
        IN  /\ SuffixTypes(current_account) # {}
                  => current_account_type \in SuffixTypes(current_account)
            /\ (SuffixTypes(current_account) = {}
                  /\ IndexOf(account_map, stripped) # 0)
                  => current_account_type = MapGet(account_map, stripped)
            /\ current_account_type = UNKNOWN
                  => /\ SuffixTypes(current_account) = {}
                     /\ IndexOf(account_map, stripped) = 0

\* C26: a sub-account header N read while its ancestors P1, ..., Pk (k >= 1)
\* have open blocks is recorded under the full name 'P1:...:Pk:N' whenever
\* that path is a Chart-of-Accounts key, for nesting of any depth.
C26_FullNameAtAnyDepth ==
    [][ ( /\ Len(open_blocks') = Len(open_blocks) + 1
          /\ Len(open_blocks) >= 1
          /\ IndexOf(account_map, JoinPath(open_blocks')) # 0 )
        => current_account' = JoinPath(open_blocks') ]_vars

----------------------------------------------------------------------------
\* Claims about the rows of parse_gl_with_mapping (GLSpec).

IsPrefix(short, long) ==
    /\ Len(short) <= Len(long)
    /\ SubSeq(long, 1, Len(short)) = short

\* C24: in parse_gl_with_mapping a 'Total for X' row leaves the accounts map,
\* every account's transactions, the flat transaction list and the
\* current-account context unchanged; its only possible effect is to remove
\* entries from the top of the parent-tracking stack, whatever dollar value
\* the row states.
C24_TotalForRowOnlyPops ==
    [][ (TotalForRow /\ parser = "parse_gl_with_mapping")
        => /\ UNCHANGED <<accounts, all_transactions, current_account,
                          current_account_type>>
           /\ IsPrefix(parent_account_stack', parent_account_stack) ]_vars

\* 'Total for Marketing' has closed the Marketing block: the stack is empty
\* again while Marketing, with its transaction, is still the current account.
C24_Witness ==
    /\ parser = "parse_gl_with_mapping"
    /\ pc = "rows"
    /\ gl_totals # <<>>
    /\ current_account = <<"Marketing">>
    /\ parent_account_stack = <<>>
    /\ all_transactions # <<>>

RECURSIVE PostedTo(_, _)
\* The transactions of the flat list whose account field is `name`, in order.
PostedTo(txns, name) ==
    IF txns = <<>> THEN <<>>
    ELSE IF Head(txns).account = name
         THEN <<Head(txns)>> \o PostedTo(Tail(txns), name)
         ELSE PostedTo(Tail(txns), name)

\* C25: in parse_gl_with_mapping every Transaction of the flat list is in the
\* transactions of the AccountSummary named by its account field, once, and
\* in no other summary; the summaries hold nothing that is not in the flat
\* list; each transaction_count is the length of the transactions list; and
\* a new Transaction carries the account of the most recent header.
C25_TransactionsOwnedBySummary ==
    /\ [](parser = "parse_gl_with_mapping" =>
            /\ \A i, j \in 1..Len(accounts) :
                  accounts[i].name = accounts[j].name => i = j
            /\ \A k \in 1..Len(all_transactions) :
                  IndexOf(accounts, all_transactions[k].account) # 0
            /\ \A i \in 1..Len(accounts) :
                  /\ accounts[i].transactions
                        = PostedTo(all_transactions, accounts[i].name)
                  /\ accounts[i].transaction_count
                        = Len(accounts[i].transactions))
    /\ [][ (parser = "parse_gl_with_mapping"
              /\ all_transactions' # all_transactions)
           => /\ Len(all_transactions') = Len(all_transactions) + 1
              /\ SubSeq(all_transactions', 1, Len(all_transactions))
                    = all_transactions
              /\ all_transactions'[Len(all_transactions')].account
                    = current_account ]_vars

\* Two accounts, each with a transaction of its own, after the parse.
C25_Witness ==
    /\ parser = "parse_gl_with_mapping"
    /\ Parsed
    /\ \E i, j \in 1..Len(accounts) :
          /\ i # j
          /\ accounts[i].transaction_count >= 1
          /\ accounts[j].transaction_count >= 1
    /\ Len(all_transactions) >= 2

----------------------------------------------------------------------------
\* build_financial_statements (gl_analyzer.py and qbo_parser.py): the
\* accounts are dealt into the buckets of the P&L and the Balance Sheet.

REVENUE == "Revenue"
COST_OF_GOODS_SOLD == "Cost of Goods Sold"
EXPENSE == "Expense"
ASSET == "Asset"
LIABILITY == "Liability"
EQUITY == "Equity"

\* The eight known members of AccountType, and all nine.
KnownTypes ==
    {ASSET, LIABILITY, EQUITY, REVENUE, COST_OF_GOODS_SOLD, EXPENSE,
     OTHER_INCOME, OTHER_EXPENSE}

AccountTypes == KnownTypes \cup {UNKNOWN}

PnlBuckets ==
    {"Revenue", "Cost of Goods Sold", "Expenses", "Other Income", "Other Expense"}

BalanceSheetBuckets == {"Assets", "Liabilities", "Equity"}

\* The bucket an account type is written to ("" for none): the if/elif chain.
BucketOf(type) ==
    CASE type = REVENUE            -> "Revenue"
      [] type = COST_OF_GOODS_SOLD -> "Cost of Goods Sold"
      [] type = EXPENSE            -> "Expenses"
      [] type = OTHER_INCOME       -> "Other Income"
      [] type = OTHER_EXPENSE      -> "Other Expense"
      [] type = ASSET              -> "Assets"
      [] type = LIABILITY          -> "Liabilities"
      [] type = EQUITY             -> "Equity"
      [] OTHER                     -> ""

\* Account names of the dict, in order.
StatementNames == <<"Sales", "Marketing", "Marketing with sub-accounts">>

\* "with sub-accounts" in name
HasSubAccountsMarker(name) == name = "Marketing with sub-accounts"

\* A builder that passes over no account.
NoSummaryAccount(builder, name) == FALSE

\* gl_analyzer's version passes over summary accounts; qbo_parser's has no
\* such test.
IsSummaryAccount(builder, name) ==
    builder = "gl_analyzer" /\ HasSubAccountsMarker(name)

RECURSIVE FillBuckets(_, _, _, _)
\* The loop over accounts.items() for one statement: `buckets` are the
\* statement's bucket names, `done` the statement so far.
FillBuckets(builder, accts, buckets, done) ==
    IF accts = <<>> THEN done
    ELSE LET a == Head(accts)
             b == BucketOf(a.account_type)
         IN  IF IsSummaryAccount(builder, a.name) \/ b \notin buckets
             THEN FillBuckets(builder, Tail(accts), buckets, done)
             ELSE FillBuckets(builder, Tail(accts), buckets,
                              [done EXCEPT ![b] = DictPut(@, a.name, a.total)])

BuildInit ==
    /\ bs_pc = "start"
    /\ bs_builder \in {"gl_analyzer", "qbo_parser"}
    /\ bs_accounts \in
          { [k \in 1..Len(StatementNames) |->
                [name |-> StatementNames[k], account_type |-> t[k],
                 total |-> 100 * k]]
            : t \in [1..Len(StatementNames) -> AccountTypes] }
    /\ pnl = <<>>
    /\ balance_sheet = <<>>

build_financial_statements ==
    /\ bs_pc = "start"
    /\ pnl' = FillBuckets(bs_builder, bs_accounts, PnlBuckets,
                          [b \in PnlBuckets |-> <<>>])
    /\ balance_sheet' = FillBuckets(bs_builder, bs_accounts, BalanceSheetBuckets,
                                    [b \in BalanceSheetBuckets |-> <<>>])
    /\ bs_pc' = "built"
    /\ UNCHANGED <<bs_builder, bs_accounts>>
    /\ UNCHANGED <<glvars, plvars, amvars, dtvars, exvars, hdvars, curvars, auvars>>

BuildNext == build_financial_statements

BuildSpecInit == BuildInit /\ GLIdle /\ PLIdle /\ AmountIdle /\ DateIdle /\ ExpenseIdle /\ HeaderIdle /\ CurrencyIdle /\ AuthIdle

BuildSpec == BuildSpecInit /\ [][BuildNext]_vars

Built == bs_pc = "built"

\* The buckets, of either statement, that hold an entry for the account.
BucketsHolding(a) ==
    { b \in PnlBuckets : \E k \in 1..Len(pnl[b]) :
          pnl[b][k].name = a.name /\ pnl[b][k].amount = a.total }
    \cup
    { b \in BalanceSheetBuckets : \E k \in 1..Len(balance_sheet[b]) :
          balance_sheet[b][k].name = a.name
          /\ balance_sheet[b][k].amount = a.total }

\* The bucket named for each known type.
BucketNamedFor(type) ==
    CASE type = "Revenue"            -> "Revenue"
      [] type = "Cost of Goods Sold" -> "Cost of Goods Sold"
      [] type = "Expense"            -> "Expenses"
      [] type = "Other Income"       -> "Other Income"
      [] type = "Other Expense"      -> "Other Expense"
      [] type = "Asset"              -> "Assets"
      [] type = "Liability"          -> "Liabilities"
      [] type = "Equity"             -> "Equity"

\* C22 as stated: every account of a known type is in exactly one bucket,
\* the bucket of its type, and an account of type Unknown is in none.
C22_EveryKnownAccountInOneBucket ==
    Built =>
        \A k \in 1..Len(bs_accounts) :
            LET a == bs_accounts[k]
            IN  IF a.account_type \in KnownTypes
                THEN BucketsHolding(a) = {BucketNamedFor(a.account_type)}
                ELSE BucketsHolding(a) = {}

\* C22 (amended): every account of a known type is in exactly one bucket,
\* the bucket of its type, except that gl_analyzer's version leaves an
\* account whose name contains "with sub-accounts" out of every bucket; an
\* account of type Unknown is in none.
C22_KnownAccountsInOneBucketUnlessSummary ==
    Built =>
        \A k \in 1..Len(bs_accounts) :
            LET a == bs_accounts[k]
            IN  IF /\ a.account_type \in KnownTypes
                   /\ ~(bs_builder = "gl_analyzer" /\ HasSubAccountsMarker(a.name))
                THEN BucketsHolding(a) = {BucketNamedFor(a.account_type)}
                ELSE BucketsHolding(a) = {}

\* gl_analyzer's version has placed a revenue account, left an Unknown one
\* out, and left a summary account of a known type out.
C22_Witness ==
    /\ Built
    /\ bs_builder = "gl_analyzer"
    /\ \E i, j, k \in 1..Len(bs_accounts) :
          /\ bs_accounts[i].account_type = REVENUE
          /\ BucketsHolding(bs_accounts[i]) = {"Revenue"}
          /\ bs_accounts[j].account_type = UNKNOWN
          /\ BucketsHolding(bs_accounts[j]) = {}
          /\ HasSubAccountsMarker(bs_accounts[k].name)
          /\ bs_accounts[k].account_type = EXPENSE
          /\ BucketsHolding(bs_accounts[k]) = {}

----------------------------------------------------------------------------
\* pl_parser.parse_currency.  A cell is either the missing value or a string,
\* and a string is the sequence of its tokens: single characters, and the
\* word "nan" taken as one token.  A float is kept exactly, as its digits
\* read as an integer (mant) and the number of digits after the point.

MaxLen == 4

Tokens == {"$", ",", " ", "(", ")", "-", ".", "1", "2", "nan"}

Digits == {"1", "2"}

DigitValue(c) == IF c = "1" THEN 1 ELSE 2

\* The missing value (NaN), kept apart from every string.
MissingCell == <<"<NA>">>

RECURSIVE StringsUpTo(_)
\* All strings of at most n tokens.
StringsUpTo(n) ==
    IF n = 0 THEN {<<>>}
    ELSE LET shorter == StringsUpTo(n - 1)
         IN  shorter \cup { Append(s, c) : s \in shorter, c \in Tokens }

Number(mant, scale) == [kind |-> "number", mant |-> mant, scale |-> scale]

\* 0.0
ZeroFloat == Number(0, 0)

\* float('nan')
NotANumber == [kind |-> "nan", mant |-> 0, scale |-> 0]

\* float() raised ValueError
ValueError == [kind |-> "ValueError", mant |-> 0, scale |-> 0]

RECURSIVE Strip(_)
\* str.strip()
Strip(s) ==
    IF s = <<>> THEN s
    ELSE IF Head(s) = " " THEN Strip(Tail(s))
    ELSE IF s[Len(s)] = " " THEN Strip(SubSeq(s, 1, Len(s) - 1))
    ELSE s

RECURSIVE Without(_, _)
\* The string with every token of `dropped` removed.
Without(s, dropped) ==
    IF s = <<>> THEN <<>>
    ELSE IF Head(s) \in dropped THEN Without(Tail(s), dropped)
    ELSE <<Head(s)>> \o Without(Tail(s), dropped)

RECURSIVE DigitsValue(_)
\* A string of digits read as an integer (0 for the empty string).
DigitsValue(s) ==
    IF s = <<>> THEN 0
    ELSE 10 * DigitsValue(SubSeq(s, 1, Len(s) - 1)) + DigitValue(s[Len(s)])

AllDigits(s) == \A i \in 1..Len(s) : s[i] \in Digits

\* float() on an unsigned literal: digits with at most one point and at
\* least one digit, or nan.
UnsignedFloat(s) ==
    IF s = <<"nan">> THEN NotANumber
    ELSE LET points == {i \in 1..Len(s) : s[i] = "."}
         IN  IF points = {}
             THEN IF s # <<>> /\ AllDigits(s) THEN Number(DigitsValue(s), 0)
                  ELSE ValueError
             ELSE LET p == CHOOSE i \in points : TRUE
                      whole == SubSeq(s, 1, p - 1)
                      frac  == SubSeq(s, p + 1, Len(s))
                  IN  IF /\ Cardinality(points) = 1
                         /\ AllDigits(whole) /\ AllDigits(frac)
                         /\ Len(whole) + Len(frac) >= 1
                      THEN Number(DigitsValue(whole \o frac), Len(frac))
                      ELSE ValueError

Negated(x) == IF x.kind = "number" THEN Number(-x.mant, x.scale) ELSE x

\* float(val_str): an optional sign, then the unsigned literal.
Float(s) ==
    IF s # <<>> /\ Head(s) = "-" THEN Negated(UnsignedFloat(Tail(s)))
    ELSE UnsignedFloat(s)

\* try: return float(val_str)  except ValueError: return 0.0
FloatOrZero(s) == IF Float(s).kind = "ValueError" THEN ZeroFloat ELSE Float(s)

parse_currency(value) ==
    IF value = MissingCell \/ value = <<>> \/ value = <<"nan">> THEN ZeroFloat
    ELSE LET val_str == Strip(value)
         IN  IF val_str \in {<<>>, <<"-">>} THEN ZeroFloat
             ELSE LET cleaned == Without(val_str, {"$", ",", " "})
                      signed  == IF /\ cleaned # <<>>
                                    /\ Head(cleaned) = "("
                                    /\ cleaned[Len(cleaned)] = ")"
                                 THEN <<"-">> \o
                                      SubSeq(cleaned, 2, Len(cleaned) - 1)
                                 ELSE cleaned
                  IN  FloatOrZero(signed)

CurrencyInit ==
    /\ cur_pc = "cell"
    /\ cur_value \in StringsUpTo(MaxLen) \cup {MissingCell}
    /\ cur_result = <<>>

ParseCurrency ==
    /\ cur_pc = "cell"
    /\ cur_result' = parse_currency(cur_value)
    /\ cur_pc' = "parsed"
    /\ UNCHANGED cur_value
    /\ UNCHANGED <<glvars, plvars, amvars, dtvars, exvars, hdvars, bsvars, auvars>>

CurrencyNext == ParseCurrency

CurrencySpecInit == CurrencyInit /\ GLIdle /\ PLIdle /\ AmountIdle /\ DateIdle /\ ExpenseIdle /\ HeaderIdle /\ BuildIdle /\ AuthIdle

CurrencySpec == CurrencySpecInit /\ [][CurrencyNext]_vars

\* A plain amount: digits, possibly grouped by commas and after a currency
\* symbol, with at most one decimal point.
PlainAmount(s) ==
    /\ s # <<>>
    /\ \A i \in 1..Len(s) : s[i] \in Digits \cup {".", ",", "$"}
    /\ \A i \in 2..Len(s) : s[i] # "$"
    /\ s[Len(s)] \in Digits
    /\ Cardinality({i \in 1..Len(s) : s[i] = "."}) <= 1
    /\ \A i, j \in 1..Len(s) : (s[i] = "." /\ s[j] = ",") => j < i

\* The number a plain amount denotes.
AmountOf(s) ==
    LET digits == Without(s, {"$", ","})
        points == {i \in 1..Len(digits) : digits[i] = "."}
    IN  IF points = {} THEN Number(DigitsValue(digits), 0)
        ELSE LET p == CHOOSE i \in points : TRUE
             IN  Number(DigitsValue(Without(digits, {"."})), Len(digits) - p)

\* C23: parse_currency never raises and returns a number for every cell:
\* 0.0 for blank, dash and unparseable input, the negated magnitude for a
\* parenthesized amount, and the plain number once currency symbols and
\* thousands separators are stripped.
C23_AlwaysANumber ==
    cur_pc = "parsed" =>
        /\ cur_result.kind = "number"
        /\ (cur_value = MissingCell \/ Strip(cur_value) \in {<<>>, <<"-">>})
              => cur_result = ZeroFloat
        /\ (cur_value # MissingCell /\ PlainAmount(cur_value))
              => cur_result = AmountOf(cur_value)
        /\ (/\ cur_value # MissingCell
            /\ Len(cur_value) >= 3
            /\ Head(cur_value) = "("
            /\ cur_value[Len(cur_value)] = ")"
            /\ PlainAmount(SubSeq(cur_value, 2, Len(cur_value) - 1)))
              => cur_result
                   = Negated(AmountOf(SubSeq(cur_value, 2, Len(cur_value) - 1)))

----------------------------------------------------------------------------
\* parse_pl_csv on exports whose rows come in any order: section headers in
\* either case and at any indentation, accounts with values, and parent
\* accounts without.

MaxLines == 3

\* Rows of the export: name (stripped), indentation, cell values.
SectionRows ==
    { Row("Income", 0, <<>>), Row("INCOME", 2, <<>>),
      Row("Sales", 1, IncomeValues),
      Row("Cost of Goods Sold", 0, <<>>),
      Row("Cost of Goods Sold", 1, CogsValues),
      Row("Materials", 1, CogsValues),
      Row("Expenses", 0, <<>>) }

RECURSIVE RowSeqsUpTo(_)
RowSeqsUpTo(n) ==
    IF n = 0 THEN {<<>>}
    ELSE LET shorter == RowSeqsUpTo(n - 1)
         IN  shorter \cup { Append(rows, r) : rows \in shorter, r \in SectionRows }

SectionFiles ==
    { [months |-> PLMonths, rows |-> rows] : rows \in RowSeqsUpTo(MaxLines) }

SectionInit ==
    /\ pl_pc = "start"
    /\ pl_file \in SectionFiles
    /\ pl_qbo = EmptyQbo
    /\ statement = NewStatement(<<>>, <<>>)
    /\ pl_warnings = <<>>

SectionNext == PLParseRows \/ PLAssignQbo \/ PLCalculate \/ PLValidate

SectionSpecInit == SectionInit /\ GLIdle /\ RestIdle

SectionSpec == SectionSpecInit /\ [][SectionNext]_vars

\* The row's name is a section-header keyword, whatever its case.
IsSectionHeader(row) == detect_section(row.name, PL_UNKNOWN) # PL_UNKNOWN

RECURSIVE SectionsExpected(_, _)
\* Name and section of the line items the rows should give, the running
\* section being `section`: a header sets the section, a header without
\* values gives no line item, every other row gives one.
SectionsExpected(rows, section) ==
    IF rows = <<>> THEN <<>>
    ELSE LET row == Head(rows)
             now == IF IsSectionHeader(row)
                    THEN detect_section(row.name, PL_UNKNOWN) ELSE section
         IN  IF IsSectionHeader(row) /\ row.values = <<>>
             THEN SectionsExpected(Tail(rows), now)
             ELSE <<[name |-> row.name, section |-> now]>>
                  \o SectionsExpected(Tail(rows), now)

\* Name and section of the line items of the statement.
SectionsFound ==
    [k \in 1..Len(statement.line_items) |->
        [name    |-> statement.line_items[k].name,
         section |-> statement.line_items[k].section]]

\* C27: every line item's section is that of the most recent row whose name,
\* compared case-insensitively and whatever its indentation, is a
\* section-header keyword (Unknown before the first), and a section-header
\* row that carries no values produces no line item.
C27_SectionFollowsLatestHeader ==
    pl_pc # "start" =>
        SectionsFound = SectionsExpected(pl_file.rows, PL_UNKNOWN)

----------------------------------------------------------------------------
\* Sign-in, the free-tier gate and the usage counter (auth.py and the
\* analysis handler of app.py).  Every browser tab is a Streamlit session
\* with its own st.session_state; the sessions of one account share the
\* account's row of the users table.  A script run starts with
\* render_auth_ui and then serves one interaction of the page.

FREE_ANALYSES == 3

MaxCompleted == 4

Sessions == {"tab1", "tab2"}

\* st.session_state without the key "user".
NoUser == [signed_in |-> FALSE, is_pro |-> FALSE, analyses_used |-> 0]

\* get_or_create_user: the row of the account as it is now.
get_or_create_user(row) ==
    [signed_in |-> TRUE, is_pro |-> row.is_pro,
     analyses_used |-> row.analyses_used]

\* "user" in st.session_state and st.session_state.user: the key is only
\* ever set to a row, which is not empty.
HasUserKey(s) == au_user[s].signed_in

SignedIn(s) == HasUserKey(s)

can_analyze(user) == user.is_pro \/ user.analyses_used < FREE_ANALYSES

AuthInit ==
    /\ au_db \in { [is_pro |-> p, analyses_used |-> 0] : p \in BOOLEAN }
    /\ au_user = [s \in Sessions |-> NoUser]
    /\ au_pc = [s \in Sessions |-> "auth"]
    /\ au_current = [s \in Sessions |-> 0]
    /\ au_success = [s \in Sessions |-> FALSE]
    /\ au_completed = 0

\* render_auth_ui up to the sign-in forms: a session that holds a user
\* returns it at once; the payment block comes after that return.
render_auth_ui(s) ==
    /\ au_pc[s] = "auth"
    /\ IF SignedIn(s)
       THEN UNCHANGED <<au_db, au_user, au_success>>
       ELSE IF au_success[s] /\ HasUserKey(s)
       THEN \* upgrade_to_pro, then st.query_params.clear()
            /\ au_db' = [au_db EXCEPT !.is_pro = TRUE]
            /\ au_user' = [au_user EXCEPT ![s].is_pro = TRUE]
            /\ au_success' = [au_success EXCEPT ![s] = FALSE]
       ELSE UNCHANGED <<au_db, au_user, au_success>>
    /\ au_pc' = [au_pc EXCEPT ![s] = "page"]
    /\ UNCHANGED <<au_current, au_completed>>
    /\ UNCHANGED <<glvars, plvars, amvars, dtvars, exvars, hdvars, bsvars, curvars>>

\* The verification code is accepted: the session keeps the row it read.
SignIn(s) ==
    /\ au_pc[s] = "page"
    /\ ~SignedIn(s)
    /\ au_user' = [au_user EXCEPT ![s] = get_or_create_user(au_db)]
    /\ au_pc' = [au_pc EXCEPT ![s] = "auth"]
    /\ UNCHANGED <<au_db, au_current, au_success, au_completed>>
    /\ UNCHANGED <<glvars, plvars, amvars, dtvars, exvars, hdvars, bsvars, curvars>>

\* The Logout button.
Logout(s) ==
    /\ au_pc[s] = "page"
    /\ SignedIn(s)
    /\ au_user' = [au_user EXCEPT ![s] = NoUser]
    /\ au_pc' = [au_pc EXCEPT ![s] = "auth"]
    /\ UNCHANGED <<au_db, au_current, au_success, au_completed>>
    /\ UNCHANGED <<glvars, plvars, amvars, dtvars, exvars, hdvars, bsvars, curvars>>

\* Stripe sends the browser to success_url: the page runs again with the
\* query parameter success=true.
ReturnFromCheckout(s) ==
    /\ au_pc[s] = "page"
    /\ ~au_success[s]
    /\ au_success' = [au_success EXCEPT ![s] = TRUE]
    /\ au_pc' = [au_pc EXCEPT ![s] = "auth"]
    /\ UNCHANGED <<au_db, au_user, au_current, au_completed>>
    /\ UNCHANGED <<glvars, plvars, amvars, dtvars, exvars, hdvars, bsvars, curvars>>

\* The Analyze button: the handler stops at the paywall unless can_analyze
\* holds of the session's user.
HandleAnalysis(s) ==
    /\ au_pc[s] = "page"
    /\ SignedIn(s)
    /\ au_completed < MaxCompleted
    /\ au_pc' = [au_pc EXCEPT ![s] = IF can_analyze(au_user[s])
                                     THEN "analyzing" ELSE "auth"]
    /\ UNCHANGED <<au_db, au_user, au_current, au_success, au_completed>>
    /\ UNCHANGED <<glvars, plvars, amvars, dtvars, exvars, hdvars, bsvars, curvars>>

\* The analysis is done.  For a user who is not Pro increment_usage starts:
\* it reads analyses_used from the table.
IncrementUsageSelect(s) ==
    /\ au_pc[s] = "analyzing"
    /\ IF au_user[s].is_pro
       THEN /\ au_pc' = [au_pc EXCEPT ![s] = "auth"]
            /\ UNCHANGED au_current
       ELSE /\ au_pc' = [au_pc EXCEPT ![s] = "read"]
            /\ au_current' = [au_current EXCEPT ![s] = au_db.analyses_used]
    /\ UNCHANGED <<au_db, au_user, au_success, au_completed>>
    /\ UNCHANGED <<glvars, plvars, amvars, dtvars, exvars, hdvars, bsvars, curvars>>

\* increment_usage writes current + 1, and the handler adds one to the
\* count the session holds.
IncrementUsageUpdate(s) ==
    /\ au_pc[s] = "read"
    /\ au_db' = [au_db EXCEPT !.analyses_used = au_current[s] + 1]
    /\ au_user' = [au_user EXCEPT ![s].analyses_used = @ + 1]
    /\ au_current' = [au_current EXCEPT ![s] = 0]
    /\ au_completed' = au_completed + 1
    /\ au_pc' = [au_pc EXCEPT ![s] = "auth"]
    /\ UNCHANGED au_success
    /\ UNCHANGED <<glvars, plvars, amvars, dtvars, exvars, hdvars, bsvars, curvars>>

AuthNext ==
    \E s \in Sessions :
        \/ render_auth_ui(s)
        \/ SignIn(s)
        \/ Logout(s)
        \/ ReturnFromCheckout(s)
        \/ HandleAnalysis(s)
        \/ IncrementUsageSelect(s)
        \/ IncrementUsageUpdate(s)

AuthSpecInit == AuthInit /\ GLIdle /\ PLIdle /\ AmountIdle /\ DateIdle /\ ExpenseIdle /\ HeaderIdle /\ BuildIdle /\ CurrencyIdle

AuthSpec == AuthSpecInit /\ [][AuthNext]_vars

\* C29: for an account that is not Pro, whatever the number of sessions
\* signed in to it and however their analyses interleave, no more than
\* FREE_ANALYSES analyses pass the gate and complete, and the stored
\* analyses_used equals the number of analyses completed.
C29_FreeTierLimit ==
    ~au_db.is_pro =>
        /\ au_completed <= FREE_ANALYSES
        /\ au_db.analyses_used = au_completed

\* C30: a run of render_auth_ui with success=true in a session that holds a
\* signed-in user upgrades the account: afterwards the row of the account
\* and the session's user both have is_pro = True.
C30_PaymentUpgradesSignedInUser ==
    [][\A s \in Sessions :
          (render_auth_ui(s) /\ au_success[s] /\ SignedIn(s))
             => (au_db'.is_pro /\ au_user'[s].is_pro)]_vars

============================================================================
